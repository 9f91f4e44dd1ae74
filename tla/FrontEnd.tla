------------------------------ MODULE FrontEnd ------------------------------
(***************************************************************************)
(* The two-band front end of phy/xtrx_radio.py on its hardware: tx_863 and *)
(* tx_2400 retune the radio and queue a frame, a thread sends the queue.   *)
(* Air time is counted in units; a frame goes out on the band the radio is *)
(* tuned to when its samples are written.                                  *)
(***************************************************************************)
EXTENDS Naturals, Sequences

CONSTANTS
    Length,      \* frame lengths, in units of air time
    Budget,      \* units allowed in a window: 36 ms
    Window,      \* ticks: 3.6 s
    BufferSize,  \* frames in _tx_q: 128
    CallLimit    \* bound: calls of tx_863 and tx_2400

ASSUME FrontEndAssumption ==
    /\ Length \subseteq Nat \ {0}
    /\ {Budget, Window, BufferSize, CallLimit} \subseteq Nat

Band == {863, 2400}
Burst == [band : Band, units : Nat \ {0}]    \* the band it is meant for

VARIABLES
    up,         \* the threads: "new", "started", "stopped"
    tuned,      \* _current
    txBuffer,   \* _tx_q
    onAir,      \* what is left of the frame in _tx_worker, or none
    used,       \* _tx_time_863
    windowAge,  \* ticks since _window_start, up to Window + 1
    calls,      \* calls made
    windows,    \* history: windows accounted so far
    aired,      \* history: units sent on 863 MHz
    airedMeant  \* history: units sent of frames meant for 863 MHz

frontVars == <<up, tuned, txBuffer, onAir, used, windowAge, calls, windows,
               aired, airedMeant>>

FrontInit ==
    /\ up = "new" /\ tuned \in Band
    /\ txBuffer = <<>> /\ onAir = <<>>
    /\ used = 0 /\ windowAge = 0 /\ windows = 1
    /\ calls = 0 /\ aired = 0 /\ airedMeant = 0

-----------------------------------------------------------------------------
\* Fault: the buffer has no limit.
TransmitUnbounded(band, n) ==
    /\ calls < CallLimit /\ calls' = calls + 1
    /\ tuned' = band
    /\ txBuffer' = Append(txBuffer, [band |-> band, units |-> n])

\* transmit: dropped if the buffer is full, and the caller is not told.
Transmit(band, n) ==
    /\ calls < CallLimit /\ calls' = calls + 1
    /\ tuned' = band
    /\ txBuffer' = IF Len(txBuffer) >= BufferSize THEN txBuffer
                   ELSE Append(txBuffer, [band |-> band, units |-> n])

\* A new window begins with the call that comes after the old one.
NewWindow == windowAge > Window

Spent == IF NewWindow THEN 0 ELSE used

Account ==
    /\ windowAge' = IF NewWindow THEN 0 ELSE windowAge
    /\ windows' = IF NewWindow THEN windows + 1 ELSE windows

\* Fault: the budget is compared before the frame is added.
AllowsLast(n) == Spent <= Budget

Allows(n) == Spent + n <= Budget

Tx863(n) ==
    /\ Allows(n)
    /\ Account
    /\ Transmit(863, n)
    /\ used' = Spent + n
    /\ UNCHANGED <<up, onAir, aired, airedMeant>>

Refuse863(n) ==
    /\ ~Allows(n)
    /\ Account
    /\ used' = Spent
    /\ UNCHANGED <<up, tuned, txBuffer, onAir, calls, aired, airedMeant>>

Tx2400(n) ==
    /\ Transmit(2400, n)
    /\ UNCHANGED <<up, onAir, used, windowAge, windows, aired, airedMeant>>

-----------------------------------------------------------------------------
StartFront ==
    /\ up = "new" /\ up' = "started"
    /\ UNCHANGED <<tuned, txBuffer, onAir, used, windowAge, calls, windows,
                   aired, airedMeant>>

\* The streams are closed: the rest of a frame does not get out.
StopFront ==
    /\ up = "started" /\ up' = "stopped"
    /\ onAir' = <<>>
    /\ UNCHANGED <<tuned, txBuffer, used, windowAge, calls, windows, aired,
                   airedMeant>>

\* _tx_worker
TakeBurst ==
    /\ up = "started" /\ onAir = <<>> /\ txBuffer # <<>>
    /\ onAir' = <<Head(txBuffer)>>
    /\ txBuffer' = Tail(txBuffer)
    /\ UNCHANGED <<up, tuned, used, windowAge, calls, windows, aired, airedMeant>>

WriteStream ==
    /\ onAir # <<>>
    /\ LET f == onAir[1]
       IN /\ onAir' = IF f.units = 1 THEN <<>>
                      ELSE <<[f EXCEPT !.units = f.units - 1]>>
          /\ airedMeant' = IF f.band = 863 THEN airedMeant + 1 ELSE airedMeant
    /\ aired' = IF tuned = 863 THEN aired + 1 ELSE aired
    /\ UNCHANGED <<up, tuned, txBuffer, used, windowAge, calls, windows>>

FrontTick ==
    /\ windowAge <= Window /\ windowAge' = windowAge + 1
    /\ UNCHANGED <<up, tuned, txBuffer, onAir, used, calls, windows, aired,
                   airedMeant>>

FrontNext ==
    \/ \E n \in Length : Tx863(n) \/ Refuse863(n) \/ Tx2400(n)
    \/ StartFront \/ StopFront \/ TakeBurst \/ WriteStream \/ FrontTick

FrontSpec == FrontInit /\ [][FrontNext]_frontVars

-----------------------------------------------------------------------------
(* Properties                                                              *)

FrontTypeOK ==
    /\ up \in {"new", "started", "stopped"}
    /\ tuned \in Band
    /\ txBuffer \in Seq(Burst) /\ Len(txBuffer) <= BufferSize
    /\ onAir \in Seq(Burst) /\ Len(onAir) <= 1
    /\ used \in 0..Budget
    /\ windowAge \in 0..(Window + 1)
    /\ calls \in 0..CallLimit
    /\ {windows, aired, airedMeant} \subseteq Nat

\* "max. 1% Duty Cycle (= max. 36 ms pro 3.6 Sekunden Fenster)": the air time
\* on 863 MHz stays within the budget of the windows begun.
DutyCycle == aired <= windows * Budget

\* The account covers the frames that were meant for 863 MHz, whatever was
\* refused, dropped, cut off or sent windows later.
AirtimeBacked == airedMeant <= windows * Budget
=============================================================================
