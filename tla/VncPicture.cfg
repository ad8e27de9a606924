SPECIFICATION FairPicture
CONSTANTS
  MaxSize = 2
  MaxChanges = 1
  MaxTroubles = 2
  Troubles = {"resize", "window", "drop"}
 
PROPERTIES PictureArrives
CHECK_DEADLOCK FALSE
