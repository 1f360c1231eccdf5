------------------------------ MODULE EngineAudio ------------------------------
(***************************************************************************)
(* The engine's audio receive path (NimRTCEngine::handle_rtp): every       *)
(* inbound packet is pushed into the jitter buffer of its SSRC and at most *)
(* one frame is popped and played, all in the same call.  Nothing else     *)
(* pops.  A packet is a view of the datagram the transport hands over,     *)
(* whose bytes live until the call returns.                                *)
(*                                                                         *)
(* One SSRC is modelled: each has a buffer of its own.  A behaviour is that *)
(* of a buffer of the engine, or of one that a host drives through the     *)
(* plugin interface, by the calls of JitterBuffer in any order.            *)
(***************************************************************************)
EXTENDS JitterBuffer

VARIABLES
    driver,  \* who calls the buffer, fixed: "engine" or "host"
    played   \* history: the frames played, with the packet read (front), the
             \* packet being handled (during) and the time waited

engineVars == <<vars, driver, played>>

EngineInit == Init /\ played = <<>> /\ driver \in {"engine", "host"}

\* push, then one pop; the payload of the first packet of the frame is read
\* through its view and handed to the echo canceller and to the host.
handle_rtp(i) ==
    /\ driver = "engine"
    /\ now <= LastArrival
    /\ arrivals < MaxArrivals
    /\ arrivals' = arrivals + 1
    /\ \E b \in {Retarget(c) : c \in push(jb, i, now)} :
          \/ /\ Poppable(b, now) = {}
             /\ jb' = b
             /\ UNCHANGED played
          \/ \E ts \in Poppable(b, now) :
                /\ jb' = Taken(b, ts)
                /\ played' = Append(played,
                      [ts |-> ts,
                       count |-> Len(b.frame_buffer[ts].packets),
                       front |-> Head(b.frame_buffer[ts].packets),
                       during |-> i,
                       target |-> b.target_delay,
                       waited |-> now - b.frame_buffer[ts].first_arrival])
    /\ UNCHANGED <<now, calls, out, driver>>

Poll == driver = "host" /\ Pop /\ UNCHANGED <<driver, played>>
Pass == Advance /\ UNCHANGED <<driver, played>>

EngineNext ==
    \/ \E i \in DOMAIN Stream : handle_rtp(i)
    \/ /\ driver = "host"
       /\ (\E i \in DOMAIN Stream : Push(i)) \/ Flush \/ Reset \/ update_config
       /\ UNCHANGED <<driver, played>>
    \/ Poll
    \/ Pass

\* A host that keeps polling; packets and control calls may stop.
EngineSpec ==
    EngineInit /\ [][EngineNext]_engineVars /\ WF_engineVars(Poll) /\ WF_engineVars(Pass)

\* No packet is lost or played twice between the transport and the host: every
\* one handled is in the buffer or in exactly one frame that was played
\* (engine_timeline.cpp:259-261, jitter_buffer.cpp:178-201, 256-262).
PacketsAccounted ==
    driver = "engine" =>
    arrivals = Held(jb) + SumFunction([k \in DOMAIN played |-> played[k].count])

\* A frame waits for its own target delay, also when a frame with the same
\* timestamp was played before and a late packet starts it again
\* (jitter_buffer.cpp:196-199, 246-263).
WaitsItsDelay == \A k \in DOMAIN played : played[k].waited >= played[k].target

\* Once packets stop, a host that keeps polling empties the buffer: a frame
\* that is not due holds back the ones behind it, but none forever
\* (jitter_buffer.cpp:246-272).
PlaysOut == driver = "host" => <>[](DOMAIN jb.frame_buffer = {})

\* "The caller must keep the underlying bytes alive for as long as the view is
\* used" (rtp/packet.hpp:122-123): the engine reads the packet it was called
\* with, whose datagram is alive, and not one kept from an earlier call.
PayloadAlive == \A k \in DOMAIN played : played[k].front = played[k].during
=============================================================================
