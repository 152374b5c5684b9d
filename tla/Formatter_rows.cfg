SPECIFICATION Spec
CONSTANTS
  Hour = 60
  Min1 = 12
  Sec = 6
  Msec = 2
  Byte = 4
  HugeBytes = 3
  LongBytes = 3
  NULL = NULL
  Formats <- MCFormats
  Results <- MCResults
INVARIANTS CompleteOrMarked PrefixThenError CsvDistinguishes AvroExact IntervalSums
