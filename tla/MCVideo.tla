------------------------------ MODULE MCVideo ------------------------------
(***************************************************************************)
(* Instances of the video path.  Init chooses the jitter buffer by itself, *)
(* the pipeline from sender to receiver, or the ends of the path, and one  *)
(* scenario of it; the other two stand still.                              *)
(***************************************************************************)
EXTENDS MCVideoJitterBuffer, VideoPipeline, VideoCapture

VARIABLE stage
videoVars == <<stage, vars, vpVars, vcVars>>

(***************************************************************************)
(* The pipeline: which frames, over which link, with which feedback        *)
(***************************************************************************)
VpFrame(ts, nalus) == [ts |-> ts, nalus |-> nalus]
VpBase == [frames |-> <<>>, mtu |-> 12, cache |-> 3, codec |-> "h264", expect_fu_a |-> TRUE,
           initial_seq |-> 14, repeats |-> 0, max_resent |-> 1, foreign |-> {},
           closes |-> FALSE, resets |-> FALSE]
KeyThenBad == <<PliPart, MalformedPart, FirPart>>
AskZero == <<OtherPart, NackPart(<<0>>), FirPart>>
MCVpSetups ==
    { [VpBase EXCEPT !.frames = <<VpFrame(1, <<14, 3, 2>>), VpFrame(2, <<4>>)>>, !.repeats = 1,
                     !.foreign = {KeyThenBad}],
      [VpBase EXCEPT !.frames = <<VpFrame(1, <<32>>), VpFrame(2, <<4, 11>>)>>,
                     !.expect_fu_a = FALSE],
      [VpBase EXCEPT !.frames = <<VpFrame(1, <<3>>), VpFrame(2, <<14>>)>>,
                     !.foreign = {AskZero}, !.closes = TRUE, !.resets = TRUE],
      [VpBase EXCEPT !.frames = <<VpFrame(1, <<3, 14>>), VpFrame(2, <<4>>)>>],
      [VpBase EXCEPT !.frames = <<VpFrame(1, <<20>>), VpFrame(2, <<4>>)>>, !.codec = "vp8"] }

\* Parameter sets before a large picture, and a unit as long as the MTU.
SmallThenLarge == {[VpBase EXCEPT !.frames = <<VpFrame(1, <<11, 3>>), VpFrame(2, <<3, 14>>)>>]}

(***************************************************************************)
(* The ends: the source and its thread, buffers, sink and statistics       *)
(***************************************************************************)
VcBase ==
    [part |-> "source", start_seq |-> 5, pattern |-> "bars", format |-> "I420", width |-> 5,
     height |-> 3, max_calls |-> 4, max_ticks |-> 2, restarts |-> FALSE,
     callback_stops |-> TRUE, slots |-> 3, blocks |-> 2, pinned |-> TRUE,
     freeze_threshold |-> 2, bitrate_window |-> 2, lag |-> 0, max_time |-> 5,
     sizes |-> {<<5, 3, 1>>, <<4, 4, 2>>, <<7, 1, 16>>, <<1, 1, 0>>}]
MCVcSetups ==
    { VcBase, [VcBase EXCEPT !.part = "none"], [VcBase EXCEPT !.part = "buffers"],
      [VcBase EXCEPT !.restarts = TRUE, !.pattern = "other", !.max_calls = 3],
      [VcBase EXCEPT !.part = "stats"],
      [VcBase EXCEPT !.part = "stats", !.max_calls = 3, !.lag = 1, !.pinned = FALSE] }

MCInit ==
    /\ stage \in {"jitter buffer", "pipeline", "ends"}
    /\ Init /\ VpInit /\ VcInit
    /\ stage # "jitter buffer" => setup = CHOOSE s \in Setups : TRUE
    /\ stage # "pipeline" => vpSetup = CHOOSE s \in VpSetups : TRUE
    /\ stage # "ends" <=> vcSetup.part = "none"
MCNext ==
    \/ stage = "jitter buffer" /\ Next /\ UNCHANGED <<stage, vpVars, vcVars>>
    \/ stage = "pipeline" /\ VpNext /\ UNCHANGED <<stage, vars, vcVars>>
    \/ stage = "ends" /\ VcNext /\ UNCHANGED <<stage, vars, vpVars>>
    \/ caller = "idle" /\ UNCHANGED videoVars   \* nothing more to do

\* Only the ends need fairness, that of their thread.
MCSpec == MCInit /\ [][MCNext]_videoVars /\ VcFairness

\* Each variable keeps to its type: sequence numbers, timestamps and deltas in
\* the jitter buffer, numbers and ring positions in the pipeline, thread
\* states and counts at the ends.
VideoTypeOK == TypeOK /\ VpTypeOK /\ VcTypeOK
=============================================================================
