CONSTANTS
  Word = 256
  Short = 16
  Buf = 4
  PointerBytes = 1
  Quiet = 20
  MaxCount = 7
  Blocks <- MC_Blocks
  Texts <- MC_Texts
  CommandLines <- MC_CommandLines
  Scratch <- MC_Scratch
  Inputs <- MC_Inputs
  Sizes <- MC_Sizes
  Formats <- MC_Formats
  ScanFormats <- MC_ScanFormats
  Bases <- MC_Bases
  Places <- MC_Places
  Digit = 4
  Selectors <- MC_Selectors
  Vectors <- MC_Vectors
  Addresses <- MC_Addresses
  Limits <- MC_Limits
SPECIFICATION Spec
INVARIANTS TypeOK CopiesExactly StringsJoined SearchesAgree
  BufferKept TextTruncated FieldFilled RoundTrip ReadsInText
  NumbersConverted QuietAsked DescriptorsRead
\* a use of the library comes to its end
CHECK_DEADLOCK FALSE
