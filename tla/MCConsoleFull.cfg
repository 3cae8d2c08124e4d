SPECIFICATION ConsSpec
CONSTANTS
  CONSBUFSIZE = 3
  BUFLEN = 3
  Chars = {10, 120}
  MaxWaiting = 3
PROPERTIES
  NoneWaiting
