------------------------------ MODULE VideoTx ------------------------------
(***************************************************************************)
(* VideoTX of phy/video_pipe.py: the pipeline that start_gstreamer and     *)
(* stop (routes of daemon/api.py) control, and the thread that follows the *)
(* coding scheme of the MAC with the encoder's bitrate.  Each start has a  *)
(* pipeline and a thread of its own, numbered alike; GStreamer is its      *)
(* pipeline states.                                                        *)
(***************************************************************************)
EXTENDS Integers

CONSTANTS
    VideoMcs,    \* the coding schemes, 0..6
    Profile,     \* kbps of a scheme, 0 where the link is too slow for video
    InitKbps,    \* configured bitrate
    StartLimit   \* bound: calls of start_gstreamer

ASSUME VideoTxAssumption ==
    /\ VideoMcs \subseteq Nat /\ VideoMcs # {}
    /\ Profile \in [VideoMcs -> Nat]
    /\ InitKbps \in Nat /\ StartLimit \in Nat \ {0}

Pipeline == 1..StartLimit
NoMcs == -1     \* None

VARIABLES
    linkMcs,     \* what get_mcs_fn returns, NoMcs where there is no get_mcs_fn
    running,     \* _running
    started,     \* pipelines made; the last one is _pipe, with _encoder
    gst,         \* the state of each pipeline
    rate,        \* the bitrate property of its encoder
    kbps,        \* _kbps
    currentMcs,  \* _current_mcs
    abr          \* each bitrate thread: statement and scheme it read

videoTxVars == <<linkMcs, running, started, gst, rate, kbps, currentMcs, abr>>

Thread == [at : {"none", "sleep", "state", "rate", "done"},
           mcs : VideoMcs \cup {NoMcs}]

VideoTxInit ==
    /\ linkMcs \in VideoMcs \cup {NoMcs}
    /\ running = FALSE /\ started = 0
    /\ gst = [p \in Pipeline |-> "none"]
    /\ rate = [p \in Pipeline |-> 0]
    /\ kbps = InitKbps
    /\ currentMcs = NoMcs
    /\ abr = [p \in Pipeline |-> [at |-> "none", mcs |-> NoMcs]]

-----------------------------------------------------------------------------
\* A pipeline started before stays what it is: nobody refers to it any more.
\* Only with a get_mcs_fn has the new one a bitrate thread.
StartGstreamer ==
    /\ started < StartLimit
    /\ started' = started + 1
    /\ gst' = [gst EXCEPT ![started'] = "PLAYING"]
    /\ rate' = [rate EXCEPT ![started'] = kbps]
    /\ abr' = IF linkMcs = NoMcs THEN abr
              ELSE [abr EXCEPT ![started'].at = "sleep"]
    /\ running' = TRUE
    /\ UNCHANGED <<linkMcs, kbps, currentMcs>>

StopVideo ==
    /\ running' = FALSE
    /\ gst' = IF started = 0 THEN gst ELSE [gst EXCEPT ![started] = "NULL"]
    /\ UNCHANGED <<linkMcs, started, rate, kbps, currentMcs, abr>>

LinkChanges ==
    /\ linkMcs # NoMcs /\ linkMcs' \in VideoMcs \cap {linkMcs - 1, linkMcs + 1}
    /\ UNCHANGED <<running, started, gst, rate, kbps, currentMcs, abr>>

-----------------------------------------------------------------------------
(* _abr_loop                                                               *)

\* Fault: a reserve is taken off, also where there is nothing to take.
KbpsReserve(m) == Profile[m] - 200

\* mcs_to_bitrate, None is 0
Kbps(m) == Profile[m]

Loop(p) == [abr EXCEPT ![p].at = IF running THEN "sleep" ELSE "done"]

\* The sleep ends, whatever has been stopped meanwhile: the scheme is read.
AbrSame(p) ==
    /\ abr[p].at = "sleep" /\ linkMcs = currentMcs
    /\ abr' = Loop(p)
    /\ UNCHANGED <<linkMcs, running, started, gst, rate, kbps, currentMcs>>

AbrChanged(p) ==
    /\ abr[p].at = "sleep" /\ linkMcs # currentMcs
    /\ currentMcs' = linkMcs
    /\ abr' = [abr EXCEPT ![p] = [at |-> "state", mcs |-> linkMcs]]
    /\ UNCHANGED <<linkMcs, running, started, gst, rate, kbps>>

AbrPause(p) ==
    /\ abr[p].at = "state" /\ Kbps(abr[p].mcs) = 0
    /\ gst' = [gst EXCEPT ![started] = "PAUSED"]
    /\ abr' = Loop(p)
    /\ UNCHANGED <<linkMcs, running, started, rate, kbps, currentMcs>>

\* Fault: a paused pipeline is not resumed.
AbrNoResume(p) ==
    /\ abr[p].at = "state" /\ Kbps(abr[p].mcs) # 0
    /\ abr' = [abr EXCEPT ![p].at = "rate"]
    /\ UNCHANGED <<linkMcs, running, started, gst, rate, kbps, currentMcs>>

AbrPlay(p) ==
    /\ abr[p].at = "state" /\ Kbps(abr[p].mcs) # 0
    /\ gst' = [gst EXCEPT ![started] = "PLAYING"]
    /\ abr' = [abr EXCEPT ![p].at = "rate"]
    /\ UNCHANGED <<linkMcs, running, started, rate, kbps, currentMcs>>

\* Fault: the rate is compared with the configured one.
NearInit(k) == k - InitKbps \in -99..99

\* A change of less than 100 kbps is not worth it.
Near(k) == k - kbps \in -99..99

\* set_bitrate
AbrRate(p) ==
    /\ abr[p].at = "rate"
    /\ LET k == Kbps(abr[p].mcs)
       IN IF Near(k) THEN UNCHANGED <<kbps, rate>>
          ELSE kbps' = k /\ rate' = [rate EXCEPT ![started] = k]
    /\ abr' = Loop(p)
    /\ UNCHANGED <<linkMcs, running, started, gst, currentMcs>>

Abr(p) == AbrSame(p) \/ AbrChanged(p) \/ AbrPause(p) \/ AbrPlay(p) \/ AbrRate(p)

-----------------------------------------------------------------------------
VideoTxNext == \/ StartGstreamer \/ StopVideo \/ LinkChanges
               \/ \E p \in Pipeline : Abr(p)

VideoTxSpec == VideoTxInit /\ [][VideoTxNext]_videoTxVars

-----------------------------------------------------------------------------
(* Properties                                                              *)

VideoTxTypeOK ==
    /\ linkMcs \in VideoMcs \cup {NoMcs}
    /\ running \in BOOLEAN
    /\ started \in 0..StartLimit
    /\ gst \in [Pipeline -> {"none", "PLAYING", "PAUSED", "NULL"}]
    /\ rate \in [Pipeline -> Nat]
    /\ kbps \in Nat
    /\ currentMcs \in VideoMcs \cup {NoMcs}
    /\ abr \in [Pipeline -> Thread]

\* The first pipeline is as the table wants it for a scheme: paused below the
\* video rates, otherwise playing at the scheme's bitrate.
Fits(m) ==
    IF Profile[m] = 0 THEN gst[1] = "PAUSED"
    ELSE gst[1] = "PLAYING" /\ rate[1] - Profile[m] \in -99..99

\* Between its turns the one bitrate thread of a video started once leaves
\* the pipeline as the scheme it took note of asks for, so a scheme that has
\* not changed needs no action.  With a second start it does not hold.
RateSettled ==
    started = 1 /\ running /\ abr[1].at = "sleep" /\ currentMcs # NoMcs
        => Fits(currentMcs)

\* "monitors the current MCS and adjusts": once the scheme stays, so does the
\* bitrate that belongs to it.
RateFollows == \A m \in VideoMcs :
    <>[](started = 1 /\ running /\ linkMcs = m) => <>[]Fits(m)
=============================================================================
