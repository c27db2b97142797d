SPECIFICATION FdtSpec
CONSTANTS
  Blobs <- MCBlobs
  Paths <- MCPaths
  PropNames = {"model", "reg", "status"}
  MaxDepth = 2
PROPERTIES LookupEnds
