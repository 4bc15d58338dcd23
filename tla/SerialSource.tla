---------------------------- MODULE SerialSource ----------------------------
(***************************************************************************)
(* What the invoice pipeline expects of its serial_source: a call either   *)
(* gives up or delivers a serial nobody else was or will be given, above   *)
(* everything delivered before the call began.  SerialCounter implements   *)
(* it (SerialCounter!Implements).                                          *)
(***************************************************************************)
EXTENDS Integers

CONSTANTS Caller, MaxSerial

VARIABLES
  call,    \* each caller's request: idle, asked, or granted with its serial
  issued   \* how often each serial was delivered

vars == <<call, issued>>

Serials == 1 .. MaxSerial

Idle       == [at |-> "idle", n |-> 0]
Asked      == [at |-> "asked", n |-> 0]
Granted(s) == [at |-> "granted", n |-> s]

Init ==
  /\ call = [c \in Caller |-> Idle]
  /\ issued = [s \in Serials |-> 0]

Ask(c) ==
  /\ call[c] = Idle
  /\ call' = [call EXCEPT ![c] = Asked]
  /\ UNCHANGED issued

Grant(c) ==
  /\ call[c] = Asked
  /\ \E s \in Serials :
       /\ \A t \in Serials : issued[t] > 0 => t < s
       /\ \A d \in Caller : call[d].at = "granted" => call[d].n < s
       /\ call' = [call EXCEPT ![c] = Granted(s)]
  /\ UNCHANGED issued

Deliver(c) ==
  /\ call[c].at = "granted"
  /\ call' = [call EXCEPT ![c] = Idle]
  /\ issued' = [issued EXCEPT ![call[c].n] = @ + 1]

\* Exceptions and crashes: a granted serial that is not delivered is skipped.
GiveUp(gone) ==
  /\ call' = [c \in Caller |-> IF c \in gone THEN Idle ELSE call[c]]
  /\ UNCHANGED issued

Next ==
  \/ \E c \in Caller : Ask(c) \/ Grant(c) \/ Deliver(c)
  \/ \E gone \in SUBSET Caller : GiveUp(gone)

Spec == Init /\ [][Next]_vars

=============================================================================
