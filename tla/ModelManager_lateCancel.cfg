\* cancelDownload() while the downloaded model is being loaded.
SPECIFICATION Spec
CONSTANTS
  Files = {m1, m2}
  None = None
  GpuRungs = 1
  MaxQueue = 1
PROPERTIES CancelKeepsModel
