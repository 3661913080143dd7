------------------------------ MODULE MCBoard ------------------------------
(***************************************************************************)
(* The components below the driver and beside the program, for model       *)
(* checking.  They share no state but the counter, so each is looked at    *)
(* alone: part says which one is running.                                  *)
(***************************************************************************)
EXTENDS SpscQueue, UartTx, Timing, Hal, I2cBus

VARIABLE part

clockOnly == <<wait, mark, ms, left>>
halOnly   == <<ledVars, buttonVars, button_pin, h_pc, lag>>
boardVars == <<queueVars, uartVars, timingVars, halOnly, i2cVars, part>>

BoardInit ==
  /\ QueueInit /\ UartInit /\ TimingInit /\ HalInit /\ I2cInit
  /\ part \in {"queue", "uart", "timing", "hal", "i2c"}
  /\ part # "hal" => ~button_pin
  /\ part # "i2c" => peer = Peer("off")

QueueRuns  == part = "queue"  /\ QueueNext  /\ UNCHANGED <<uartVars, timingVars, halOnly, i2cVars>>
UartRuns   == part = "uart"   /\ UartNext   /\ UNCHANGED <<queueVars, timingVars, halOnly, i2cVars>>
TimingRuns == part = "timing" /\ TimingNext /\ UNCHANGED <<queueVars, uartVars, halOnly, i2cVars>>
HalRuns    == part = "hal"    /\ HalNext    /\ UNCHANGED <<queueVars, uartVars, clockOnly, i2cVars>>
I2cRuns    == part = "i2c"    /\ I2cNext    /\ UNCHANGED <<queueVars, uartVars, timingVars, halOnly>>

BoardNext ==
  UNCHANGED part /\ (QueueRuns \/ UartRuns \/ TimingRuns \/ HalRuns \/ I2cRuns)
BoardSpec == BoardInit /\ [][BoardNext]_boardVars /\ UartFairness

MCMessages == {<<"a">>, <<"b", "a">>, <<"a", "b", "b">>}

MCPatterns == { [color |-> "off", on |-> 0, off |-> 0], [color |-> "red", on |-> 3, off |-> 2] }

Bits(b1, b2, b3) == <<b1 = 1, b2 = 1, b3 = 1>>
MCAddress == <<FALSE, TRUE>>
MCGiven == <<Bits(0, 0, 1), Bits(0, 1, 0), Bits(1, 0, 0)>>
MCCalls ==
  { [kind |-> "write", reg |-> Bits(1, 0, 0), data |-> <<Bits(0, 1, 1)>>],
    [kind |-> "write", reg |-> Bits(0, 0, 1), data |-> <<Bits(0, 0, 0), Bits(1, 0, 1)>>],
    [kind |-> "read", reg |-> Bits(1, 0, 0), len |-> 1],
    [kind |-> "read", reg |-> Bits(0, 0, 1), len |-> 2] }
=============================================================================
