SPECIFICATION FairReadSpec
CONSTANTS
  Size = 5
  PieceBytes = 3
  Parallel = 2
  MaxReadRetries = 1
  Enough = 2
  Corruptible = {1}
  MaxLoads = 2
  ReadFaults = {"short", "break", "busy", "gone", "plain", "other", "longer", "quota", "abort", "whole"}
INVARIANTS
  BytesAreRight
PROPERTIES
  WhatArrivedStays ReadsEnd
CHECK_DEADLOCK FALSE
