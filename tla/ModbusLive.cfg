\* Liveness: the callbacks, the reset and the sampling interval.
SPECIFICATION HFairSpec
CONSTANTS
  ADC_SAMPLES = 1
  ADC_RAW_MAX = 2
  ADC_REF_MILIVOLT = 1
  INTERVAL_DEFAULT_US = 2
  BYTE = 2
  MaxCount = 4
  RawSamples <- MCRawSamples
  Garbage <- MCGarbage
  Requests <- LiveRequests
  NoRequest = NoRequest
  Nobody = Nobody
PROPERTIES
  ResetServed
  CallAnswered
  IntervalAdopted
