CONSTANTS
    Number = 1
    HiveCount = 2
    SuspendAnytime = TRUE
SPECIFICATION Spec
PROPERTY TimerQueuesWorker
