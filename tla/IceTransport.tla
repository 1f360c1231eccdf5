----------------------------- MODULE IceTransport -----------------------------
(***************************************************************************)
(* The ICE transport over libjuice (src/modules/ice): the calls of the     *)
(* application's thread, the callbacks of libjuice's thread, and the       *)
(* consent tracker's thread with its timer.                                *)
(*                                                                         *)
(* Steps.  open() and close() take several, because libjuice's callbacks   *)
(* and the tracker run between them; a critical section is one step.  The  *)
(* tracker reads the clock before it locks consent_mu_, and runs the       *)
(* application's callback after it unlocks.                                *)
(*                                                                         *)
(* Abstractions.  Time is counted in ticks of the tracker, and only ages   *)
(* are kept: last_binding_received_us_ is its distance from now.  Gathering *)
(* reads as Connecting and Completed as Connected, since the code treats   *)
(* each pair alike.  A candidate and a packet are the number of the agent  *)
(* that produced them.  Descriptions are well-formed ones; addresses,      *)
(* credentials and the test-only force_consent_armed are left out.         *)
(***************************************************************************)
EXTENDS Integers, Sequences

CONSTANTS
    Timeout,       \* consent_timeout_ms, in ticks
    MaxLag,        \* bound: ticks between the tracker's clock read and its lock
    Descriptions,  \* remote descriptions the application sets
    MaxOpens,      \* bound: agents created
    MaxQueue       \* bound: packets waiting in rx_queue

None == "none"    \* no description
Unprimed == -1    \* the age when last_binding_received_us_ is 0

ASSUME IceAssumption ==
    /\ Timeout \in Nat \ {0} /\ MaxLag \in Nat
    /\ MaxOpens \in Nat /\ MaxQueue \in Nat
    /\ None \notin Descriptions

VARIABLES
    app,                 \* where the application's thread is in open() or close()
    agent,               \* the libjuice agent exists
    agents,              \* agents created so far
    gathering,           \* libjuice was told to gather: its callbacks may come
    agent_remote,        \* the remote description libjuice has
    pending_remote_sdp_,
    local_candidates, gathering_done, state, rx_queue,
    \* The consent tracker.
    thread,              \* where its thread is
    consent_thread_running_, consent_thread_should_stop_,
    age,                 \* now - last_binding_received_us_, or Unprimed
    consent_lost_fired_,
    lag,                 \* now - the time the thread read
    \* History.
    given,               \* the description set last for this agent or the next
    quiet,               \* ticks since notify_binding_received, up to Timeout
    up                   \* ticks since the state became Connected, up to Timeout

juice == <<agent, agents, gathering, agent_remote, pending_remote_sdp_, given>>
media == <<local_candidates, gathering_done, state, rx_queue, up>>
flags == <<consent_thread_running_, consent_thread_should_stop_>>
timer == <<age, consent_lost_fired_, quiet>>
iceVars == <<app, juice, media, thread, flags, timer, lag>>

States == {"Disconnected", "Connecting", "Connected", "Failed"}
MaxAge == Timeout + MaxLag
Least(x, y) == IF x <= y THEN x ELSE y

IceInit ==
    /\ app = "idle"
    /\ agent = FALSE /\ agents = 0 /\ gathering = FALSE
    /\ agent_remote = None /\ pending_remote_sdp_ = None /\ given = None
    /\ local_candidates = {} /\ gathering_done = FALSE
    /\ state = "Disconnected" /\ rx_queue = <<>> /\ up = 0
    /\ thread = "none"
    /\ consent_thread_running_ = FALSE /\ consent_thread_should_stop_ = FALSE
    /\ age = Unprimed /\ consent_lost_fired_ = FALSE /\ quiet = Timeout
    /\ lag = 0

-----------------------------------------------------------------------------
(* open(), by the application. *)

RemoteAtCreation == pending_remote_sdp_

\* No agent yet: create one and give it the description set before.
create_agent ==
    /\ app = "idle" /\ ~agent /\ agents < MaxOpens
    /\ app' = "created"
    /\ agent' = TRUE /\ agents' = agents + 1
    /\ agent_remote' = RemoteAtCreation
    /\ pending_remote_sdp_' = None
    /\ UNCHANGED <<gathering, given, media, thread, flags, timer, lag>>

\* juice_gather_candidates() may fail: open() returns, and leaves the agent.
gather ==
    /\ app = "created"
    /\ \/ app' = "gathering" /\ gathering' = TRUE
       \/ app' = "idle" /\ UNCHANGED gathering
    /\ UNCHANGED <<agent, agents, agent_remote, pending_remote_sdp_, given,
                   media, thread, flags, timer, lag>>

\* Mutant: open() does not start the clock.
Primed_Not == age' = age /\ consent_lost_fired_' = FALSE

\* record_binding_received(), at the time of the call.
Primed == age' = 0 /\ consent_lost_fired_' = FALSE

\* The end of a successful open().
start_consent_tracker ==
    /\ app = "gathering"
    /\ app' = "idle"
    /\ Primed
    /\ consent_thread_running_' = TRUE
    /\ IF consent_thread_running_
       THEN UNCHANGED <<thread, consent_thread_should_stop_>>
       ELSE thread' = "top" /\ consent_thread_should_stop_' = FALSE
    /\ UNCHANGED <<juice, media, quiet, lag>>

-----------------------------------------------------------------------------
(* close(), by the application; also on a transport that is not open. *)

stop_consent_tracker ==
    /\ app = "idle"
    /\ app' = IF consent_thread_running_ THEN "joining" ELSE "joined"
    /\ consent_thread_running_' = FALSE
    /\ consent_thread_should_stop_' =
          (consent_thread_running_ \/ consent_thread_should_stop_)
    /\ UNCHANGED <<juice, media, thread, timer, lag>>

join ==
    /\ app = "joining" /\ thread = "gone"
    /\ app' = "joined"
    /\ thread' = "none"
    /\ UNCHANGED <<juice, media, flags, timer, lag>>

\* juice_destroy() returns when libjuice's thread is done with the agent.
destroy_agent ==
    /\ app = "joined"
    /\ app' = "destroyed"
    /\ agent' = FALSE /\ gathering' = FALSE /\ agent_remote' = None
    /\ given' = pending_remote_sdp_
    /\ UNCHANGED <<agents, pending_remote_sdp_, media, thread, flags, timer, lag>>

clear_consent ==
    /\ app = "destroyed"
    /\ app' = "cleared"
    /\ consent_lost_fired_' = FALSE
    /\ age' = Unprimed
    /\ UNCHANGED <<juice, media, thread, flags, quiet, lag>>

clear_media ==
    /\ app = "cleared"
    /\ app' = "idle"
    /\ rx_queue' = <<>> /\ state' = "Disconnected" /\ up' = 0
    /\ UNCHANGED <<local_candidates, gathering_done, juice, thread, flags, timer, lag>>

-----------------------------------------------------------------------------
(* Other calls of the application. *)

\* libjuice keeps the first description: it ignores the same one and refuses another.
set_remote_description(d) ==
    /\ app = "idle"
    /\ given' = d
    /\ IF agent
       THEN /\ agent_remote' = IF agent_remote = None THEN d ELSE agent_remote
            /\ UNCHANGED pending_remote_sdp_
       ELSE pending_remote_sdp_' = d /\ UNCHANGED agent_remote
    /\ UNCHANGED <<app, agent, agents, gathering, media, thread, flags, timer, lag>>

\* Everything queued goes to the callback.
recv ==
    /\ app = "idle" /\ rx_queue # <<>>
    /\ rx_queue' = <<>>
    /\ UNCHANGED <<app, juice, local_candidates, gathering_done, state, up,
                   thread, flags, timer, lag>>

last_recv_packet ==
    /\ app = "idle" /\ rx_queue # <<>>
    /\ rx_queue' = Tail(rx_queue)
    /\ UNCHANGED <<app, juice, local_candidates, gathering_done, state, up,
                   thread, flags, timer, lag>>

\* From any thread, at any time; the callback of the tracker may call it too.
notify_binding_received ==
    /\ age' = 0 /\ consent_lost_fired_' = FALSE
    /\ quiet' = 0
    /\ UNCHANGED <<app, juice, media, thread, flags, lag>>

-----------------------------------------------------------------------------
(* libjuice's thread. *)

on_state(s) ==
    /\ gathering /\ s # state
    /\ state' = s
    /\ up' = 0
    /\ UNCHANGED <<app, juice, local_candidates, gathering_done, rx_queue,
                   thread, flags, timer, lag>>

on_candidate ==
    /\ gathering /\ agents \notin local_candidates
    /\ local_candidates' = local_candidates \union {agents}
    /\ UNCHANGED <<app, juice, gathering_done, state, rx_queue, up, thread, flags, timer, lag>>

on_gathering_done ==
    /\ gathering /\ ~gathering_done
    /\ gathering_done' = TRUE
    /\ UNCHANGED <<app, juice, local_candidates, state, rx_queue, up, thread, flags, timer, lag>>

juice_recv_cb ==
    /\ gathering /\ Len(rx_queue) < MaxQueue
    /\ rx_queue' = Append(rx_queue, agents)
    /\ UNCHANGED <<app, juice, local_candidates, gathering_done, state, up,
                   thread, flags, timer, lag>>

-----------------------------------------------------------------------------
(* consent_thread_main. *)

LoopTop ==
    /\ thread = "top"
    /\ thread' = IF consent_thread_should_stop_ THEN "gone" ELSE "asleep"
    /\ UNCHANGED <<app, juice, media, flags, timer, lag>>

\* After the sleep: the state, and if the pair is up the clock.
Wake ==
    /\ thread = "asleep"
    /\ thread' = IF state = "Connected" THEN "clocked" ELSE "top"
    /\ lag' = 0
    /\ UNCHANGED <<app, juice, media, flags, timer>>

Lost == age # Unprimed /\ age >= lag + Timeout

\* The expiry check under consent_mu_: fire and rearm, or nothing.
CheckExpiry ==
    /\ thread = "clocked"
    /\ IF Lost
       THEN /\ thread' = "calling"
            /\ consent_lost_fired_' = TRUE
            /\ age' = lag
       ELSE thread' = "top" /\ UNCHANGED <<consent_lost_fired_, age>>
    /\ lag' = 0
    /\ UNCHANGED <<app, juice, media, flags, quiet>>

\* Mutant: the flag is set when the callback is done.
CallbackReturns_SetsFlag ==
    /\ thread = "calling"
    /\ thread' = "top"
    /\ consent_lost_fired_' = TRUE
    /\ UNCHANGED <<app, juice, media, flags, age, quiet, lag>>

CallbackReturns ==
    /\ thread = "calling"
    /\ thread' = "top"
    /\ UNCHANGED <<app, juice, media, flags, timer, lag>>

\* A tick of the clock.
Pass ==
    /\ thread = "clocked" => lag < MaxLag
    /\ age' = IF age = Unprimed THEN Unprimed ELSE Least(age + 1, MaxAge)
    /\ lag' = IF thread = "clocked" THEN lag + 1 ELSE 0
    /\ quiet' = Least(quiet + 1, Timeout)
    /\ up' = IF state = "Connected" THEN Least(up + 1, Timeout) ELSE 0
    /\ UNCHANGED <<app, juice, local_candidates, gathering_done, state, rx_queue,
                   thread, flags, consent_lost_fired_>>

-----------------------------------------------------------------------------
Tracker == LoopTop \/ Wake \/ CheckExpiry \/ CallbackReturns
Opening == create_agent \/ gather \/ start_consent_tracker
Closing == join \/ destroy_agent \/ clear_consent \/ clear_media

IceNext ==
    \/ Opening \/ stop_consent_tracker \/ Closing
    \/ \E d \in Descriptions : set_remote_description(d)
    \/ recv \/ last_recv_packet
    \/ notify_binding_received
    \/ \E s \in States : on_state(s)
    \/ on_candidate \/ on_gathering_done \/ juice_recv_cb
    \/ Tracker
    \/ Pass

IceSpec == IceInit /\ [][IceNext]_iceVars

\* The threads run, a callback returns, a call that was begun goes on, and time
\* passes; nothing makes the application call or libjuice report.
IceFair == WF_iceVars(Tracker) /\ WF_iceVars(Closing) /\ WF_iceVars(Pass)

-----------------------------------------------------------------------------
(* Properties. *)

\* The fields of the transport have their types (ice.cpp:177-246).
IceTypeOK ==
    /\ app \in {"idle", "created", "gathering", "joining", "joined", "destroyed", "cleared"}
    /\ agent_remote \in Descriptions \union {None}
    /\ state \in States
    /\ thread \in {"none", "top", "asleep", "clocked", "calling", "gone"}
    /\ age \in {Unprimed} \union 0..MaxAge
    /\ lag \in 0..MaxLag

\* Once close() has joined the tracker no callback of it is running or will run,
\* and its verdict does not outlive the transport (ice.cpp:399-405, 594-606).
NoCallbackAfterClose ==
    ~agent => thread = "none" /\ (app = "idle" => ~consent_lost_fired_)

\* A binding that is reported while the tracker checks, or while its callback
\* runs, is not lost: the flag stays down for a full timeout after it
\* (ice.cpp:460-464, 477-481, 504-509).
NotifyNotLost == consent_lost_fired_ => quiet >= Timeout

\* A transport that is opened again starts without the packets and the state
\* of the agent before, although libjuice's callbacks run until that agent is
\* destroyed (ice.cpp:596-610).  Its candidates and gathering_done do stay
\* (CandidatesOfThisAgent).
CleanSlate ==
    app = "created" => rx_queue = <<>> /\ state = "Disconnected"

\* The tracker, the queued packets and the state of one opening never reach past
\* it, and a binding is never overruled by a check that raced with it (ice.cpp
\* close(), consent_thread_main, record_binding_received).
TrackerContained == NoCallbackAfterClose /\ NotifyNotLost /\ CleanSlate

\* When the pair stays up and bindings stop, the loss is reported and stays
\* reported (ice.cpp:421-499).
LossDetected ==
    <>[](thread # "none" /\ state = "Connected" /\ quiet >= Timeout)
        => <>[]consent_lost_fired_

\* close() returns: the tracker leaves its loop wherever it is
\* (ice.cpp:399-405, 434).
CloseReturns == app = "joining" ~> app = "idle"

\* The tracker does its work and ends: a lasting loss is reported, and close()
\* returns wherever the thread is (consent_thread_main, stop_consent_tracker).
ConsentLive == LossDetected /\ CloseReturns

-----------------------------------------------------------------------------
(* Statements of the documentation that the code does not satisfy. *)

\* ice.hpp:265-268: consent tracking is "enabled only after a successful
\* candidate-pair selection so we don't generate false-positive
\* on_consent_lost() events during slow handshakes".
NoLossInHandshake == [][thread' = "calling" /\ thread # "calling" => up >= Timeout]_iceVars

\* plugins/transport.hpp:117: "Fired exactly once per loss event".
OncePerLoss == [][thread' = "calling" /\ thread # "calling" => ~consent_lost_fired_]_iceVars

\* ice.cpp:741: "the wrapper contract is "give me an SDP, I'll apply it"".
RemoteApplied == agent => agent_remote = given

\* ice.hpp:280-281: the local candidates are "Empty if gathering hasn't started".
CandidatesOfThisAgent == app = "created" => local_candidates = {}
=============================================================================
