SPECIFICATION EventsFairSpec
CONSTANTS
  Usb = {"usb"}
  Wlans = {"wlan0"}
  Rmnets = {"rmnet"}
  MaxReports = 3
INVARIANTS ListenersAgree CountsAgree
PROPERTIES EventsEnd
CHECK_DEADLOCK FALSE
