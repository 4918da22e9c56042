\* Two channels: scans and resets that a reply could cut in half.
SPECIFICATION HSpec
CONSTANTS
  ADC_SAMPLES = 2
  ADC_RAW_MAX = 2
  ADC_REF_MILIVOLT = 1
  INTERVAL_DEFAULT_US = 3
  BYTE = 2
  MaxCount = 4
  RawSamples <- MCRawSamples
  Garbage <- MCGarbage
  Requests <- TwoChannelRequests
  NoRequest = NoRequest
  Nobody = Nobody
INVARIANTS
  ReplyIsSnapshot
  PublishedWhole
  ReplyConsistent
PROPERTIES
  ImplementsBank
