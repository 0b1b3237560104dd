SPECIFICATION Spec
CONSTANTS
  Threads = {t1}
  MaxThrows = 0
PROPERTY TestDirectoryIsDirectory
