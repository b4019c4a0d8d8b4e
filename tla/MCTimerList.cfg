CONSTANTS
  Timer = {"s", "t", "u", "v"}
  Times = {1, 2, 3}
SPECIFICATION TimerFairSpec
PROPERTIES EveryTimerEnds ImplementsCountdowns
