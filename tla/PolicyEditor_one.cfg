\* One object with a wallpaper and a web application, whose icon is read in
\* its entry's dialog; saves, rollbacks and a removal, of this page and of
\* another administrator, two requests or files under way at a time.
SPECIFICATION Spec
CONSTANTS
  Chosen = {"wallpaper", "web_apps"}
  MaxWrites = 1
  MaxUnderWay = 2
  MaxFaults = 1
INVARIANT EditsSurvive
PROPERTY SaveWaits
PROPERTY SaveComesBack
