SPECIFICATION Spec
CONSTANTS
  Tracee <- MCTracee
  Guests <- MCGuests
  Slots = 2
  Keys <- MCKeys
  IPC_PRIVATE = 0
  GenHalf = 4
  Messages <- MCMessages
  Receives <- MCReceives
  MaxSends = 2
  MaxQueues = 1
  MaxMsggets = 2
  Semops <- MCSemops
  NSems = 2
  MaxSemval = 1
  SetVals <- MCSetVals
  MaxSets = 1
  MaxSemgets = 1
  MaxShms = 2
  MaxMaps = 1
  Backlog = 2
  Initial <- MCInitial
CHECK_DEADLOCK FALSE
INVARIANTS EachMessageOnce NoReceiverForgotten NoSemopForgotten ShmatMapsWhatWasAsked PendingMappingsEnd
