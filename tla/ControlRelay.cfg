SPECIFICATION RelaySpec
CONSTANTS
  Null = Null
  Birdseye = Birdseye
  front = front
  back = back
  Cameras = {front, back}
  Fallback = {back}
  Sources <- Viewers
  Layouts <- Shown
  Commands <- Said
  Delay = 2
  Late = 1
  MaxClock = 7
  Horizon = 3
  RelayHorizon = 1
  MaxControls = 2
  MaxLayouts = 2
INVARIANTS ToldFollows LayoutOfNewestSocket CountedIsShown
PROPERTIES OffNeedsQuiet NoLateLayout LightsSettle RelayEnds
