\* One channel, every kind of request.
SPECIFICATION HSpec
CONSTANTS
  ADC_SAMPLES = 1
  ADC_RAW_MAX = 2
  ADC_REF_MILIVOLT = 7
  INTERVAL_DEFAULT_US = 9
  BYTE = 4
  MaxCount = 1
  RawSamples <- MCRawSamples
  Garbage <- MCGarbage
  Requests <- AllRequests
  NoRequest = NoRequest
  Nobody = Nobody
INVARIANTS
  TypeOK
  MutualExclusion
  AccessInBounds
  StatsExact
  AverageWithinRange
PROPERTIES
  AverageTracks
  ImplementsBank
