\* A reset that is requested and withdrawn again.
SPECIFICATION HFairSpec
CONSTANTS
  ADC_SAMPLES = 1
  ADC_RAW_MAX = 2
  ADC_REF_MILIVOLT = 1
  INTERVAL_DEFAULT_US = 2
  BYTE = 2
  MaxCount = 1
  RawSamples <- MCRawSamples
  Garbage <- MCGarbage
  Requests <- ResetRequests
  NoRequest = NoRequest
  Nobody = Nobody
PROPERTIES
  WrittenResetServed
