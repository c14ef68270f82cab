----------------------------- MODULE MessageSink -----------------------------
(***************************************************************************)
(* Where print() lines go: runtime/src/message_sink.cpp, with the          *)
(* BridgeStan print callback (bridgestan_abi.cpp) and the capture calls of *)
(* the C API (capi.cpp) on top of it.                                      *)
(*                                                                         *)
(* Emitters are sampler threads; hosts install callbacks, switch capture   *)
(* and collect the captured text.  All of them share sink_mutex(), held by *)
(* an emitter while it runs the installed sink.  g_print_callback and      *)
(* captured_pending() are accessed outside it.                             *)
(***************************************************************************)
EXTENDS Integers, Sequences, FiniteSets, Functions

CONSTANTS Emitters, Hosts, Callbacks,
          None,          \* a null callback, a free mutex, no value
          MaxMessages,   \* lines each emitter prints
          MaxCalls       \* calls each host makes

ASSUME MessagesAssumption == MaxMessages \in Nat /\ MaxCalls \in Nat
ASSUME NoneAssumption == None \notin Emitters \cup Hosts \cup Callbacks
ASSUME RolesAssumption == Emitters \cap Hosts = {}

VARIABLES
  mutex,      \* holder of sink_mutex()
  sink,       \* current_sink() holds the print-callback lambda
  callback,   \* g_print_callback
  capturing, captured, pending,
  pc,
  cb,         \* the callback an emitter read, the one a host installs
  done,       \* messages emitted, calls made
  text,       \* what a host's take_captured_messages swapped out
  stdout, called, taken,   \* history: the lines at each destination
  unheard, unallocated     \* history: lines that reached no destination

places == <<stdout, called, taken, unheard, unallocated>>
vars == <<mutex, sink, callback, capturing, captured, pending, pc, cb, done,
          text, places>>

Message == Emitters \X (1 .. MaxMessages)
Threads == Emitters \cup Hosts

TypeOK ==
  /\ mutex \in Threads \cup {None}
  /\ sink \in BOOLEAN /\ capturing \in BOOLEAN /\ pending \in BOOLEAN
  /\ callback \in Callbacks \cup {None}
  /\ captured \in Seq(Message)
  /\ pc \in [Threads -> {"idle", "sink", "call", "captured", "install",
                         "take", "clear", "give"}]
  /\ cb \in [Threads -> Callbacks \cup {None}]
  /\ done \in [Threads -> Nat]
  /\ text \in [Hosts -> Seq(Message)]
  /\ stdout \in Seq(Message) /\ taken \in [Hosts -> Seq(Message)]
  /\ called \in Seq(Callbacks \X Message)
  /\ unheard \subseteq Message /\ unallocated \subseteq Message

Init ==
  /\ mutex = None
  /\ sink = FALSE /\ callback = None
  /\ capturing = FALSE /\ captured = <<>> /\ pending = FALSE
  /\ pc = [t \in Threads |-> "idle"]
  /\ cb = [t \in Threads |-> None]
  /\ done = [t \in Threads |-> 0]
  /\ text = [h \in Hosts |-> <<>>]
  /\ stdout = <<>> /\ called = <<>> /\ taken = [h \in Hosts |-> <<>>]
  /\ unheard = {} /\ unallocated = {}

Goto(t, l) == pc' = [pc EXCEPT ![t] = l]
Count(t) == done' = [done EXCEPT ![t] = @ + 1]
Current(t) == <<t, done[t]>>   \* the message t is emitting

-----------------------------------------------------------------------------
(* Fault variant: the sink runs without the mutex. *)
EmitToSinkUnlocked(t) ==
  /\ pc[t] = "idle" /\ done[t] < MaxMessages
  /\ mutex = None /\ sink
  /\ Count(t) /\ Goto(t, "sink")
  /\ UNCHANGED <<mutex, sink, callback, capturing, captured, pending, cb, text,
                 places>>

(* emit_message finds a sink and, keeping the mutex, enters it. *)
EmitToSink(t) ==
  /\ pc[t] = "idle" /\ done[t] < MaxMessages
  /\ mutex = None /\ sink
  /\ mutex' = t
  /\ Count(t) /\ Goto(t, "sink")
  /\ UNCHANGED <<sink, callback, capturing, captured, pending, cb, text,
                 places>>

(* Fault variant: a line that is dropped keeps the mutex. *)
SinkReadsKeepsMutex(t) ==
  /\ pc[t] = "sink"
  /\ IF callback # None
     THEN cb' = [cb EXCEPT ![t] = callback] /\ Goto(t, "call")
          /\ UNCHANGED unheard
     ELSE unheard' = unheard \cup {Current(t)} /\ Goto(t, "idle")
          /\ UNCHANGED cb
  /\ UNCHANGED <<mutex, sink, callback, capturing, captured, pending, done,
                 text, stdout, called, taken, unallocated>>

(* The lambda reads g_print_callback; a null one drops the line. *)
SinkReads(t) ==
  /\ pc[t] = "sink"
  /\ IF callback # None
     THEN /\ cb' = [cb EXCEPT ![t] = callback]
          /\ Goto(t, "call")
          /\ UNCHANGED <<mutex, unheard>>
     ELSE /\ unheard' = unheard \cup {Current(t)}
          /\ mutex' = None
          /\ Goto(t, "idle")
          /\ UNCHANGED cb
  /\ UNCHANGED <<sink, callback, capturing, captured, pending, done, text,
                 stdout, called, taken, unallocated>>

(* The callback runs and returns; emit_message unlocks. *)
SinkCalls(t) ==
  /\ pc[t] = "call"
  /\ called' = Append(called, <<cb[t], Current(t)>>)
  /\ cb' = [cb EXCEPT ![t] = None]
  /\ mutex' = None
  /\ Goto(t, "idle")
  /\ UNCHANGED <<sink, callback, capturing, captured, pending, done, text,
                 stdout, taken, unheard, unallocated>>

(* Fault variant: the line goes in front of the text. *)
EmitCapturedFront(t) ==
  /\ pc[t] = "idle" /\ done[t] < MaxMessages
  /\ mutex = None /\ ~sink /\ capturing
  /\ mutex' = t
  /\ captured' = <<<<t, done[t] + 1>>>> \o captured
  /\ Count(t) /\ Goto(t, "captured")
  /\ UNCHANGED <<sink, callback, capturing, pending, cb, text,
                 places>>

(* emit_message appends the line to the captured text, under the mutex. *)
EmitCaptured(t) ==
  /\ pc[t] = "idle" /\ done[t] < MaxMessages
  /\ mutex = None /\ ~sink /\ capturing
  /\ mutex' = t
  /\ captured' = Append(captured, <<t, done[t] + 1>>)
  /\ Count(t) /\ Goto(t, "captured")
  /\ UNCHANGED <<sink, callback, capturing, pending, cb, text,
                 places>>

(* ... then raises captured_pending() and unlocks. *)
CapturePending(t) ==
  /\ pc[t] = "captured"
  /\ pending' = TRUE
  /\ mutex' = None
  /\ Goto(t, "idle")
  /\ UNCHANGED <<sink, callback, capturing, captured, cb, done, text, places>>

(* emit_message writes the line to stdout, one fwrite under the mutex. *)
EmitToStdout(t) ==
  /\ pc[t] = "idle" /\ done[t] < MaxMessages
  /\ mutex = None /\ ~sink /\ ~capturing
  /\ stdout' = Append(stdout, <<t, done[t] + 1>>)
  /\ Count(t)
  /\ UNCHANGED <<mutex, sink, callback, capturing, captured, pending, pc, cb,
                 text, called, taken, unheard, unallocated>>

-----------------------------------------------------------------------------
(* bs_set_print_callback stores the pointer, outside the mutex. *)
SetPrintCallback(h, c) ==
  /\ pc[h] = "idle" /\ done[h] < MaxCalls
  /\ callback' = c
  /\ cb' = [cb EXCEPT ![h] = c]
  /\ Count(h) /\ Goto(h, "install")
  /\ UNCHANGED <<mutex, sink, capturing, captured, pending, text, places>>

(* Fault variant: the sink is replaced without the mutex. *)
SetMessageSinkUnlocked(h) ==
  /\ pc[h] = "install"
  /\ sink' = (cb[h] # None)
  /\ cb' = [cb EXCEPT ![h] = None]
  /\ Goto(h, "idle")
  /\ UNCHANGED <<mutex, callback, capturing, captured, pending, done, text,
                 places>>

(* bs_set_print_callback then installs the lambda, or no sink, under it. *)
SetMessageSink(h) ==
  /\ pc[h] = "install" /\ mutex = None
  /\ sink' = (cb[h] # None)
  /\ cb' = [cb EXCEPT ![h] = None]
  /\ Goto(h, "idle")
  /\ UNCHANGED <<mutex, callback, capturing, captured, pending, done, text,
                 places>>

(* set_message_capture *)
SetMessageCapture(h, on) ==
  /\ pc[h] = "idle" /\ done[h] < MaxCalls /\ mutex = None
  /\ capturing' = on
  /\ Count(h)
  /\ UNCHANGED <<mutex, sink, callback, captured, pending, pc, cb, text,
                 places>>

(* take_captured_messages looks at the flag outside the mutex. *)
TakeCheck(h) ==
  /\ pc[h] = "idle" /\ done[h] < MaxCalls
  /\ Count(h) /\ Goto(h, IF pending THEN "take" ELSE "idle")
  /\ UNCHANGED <<mutex, sink, callback, capturing, captured, pending, cb, text,
                 places>>

(* Fault variant: the text is copied, not swapped. *)
TakeCopy(h) ==
  /\ pc[h] = "take" /\ mutex = None
  /\ mutex' = h
  /\ text' = [text EXCEPT ![h] = captured]
  /\ Goto(h, "clear")
  /\ UNCHANGED <<sink, callback, capturing, captured, pending, cb, done,
                 places>>

(* take_captured_messages swaps the text out under the mutex. *)
TakeSwap(h) ==
  /\ pc[h] = "take" /\ mutex = None
  /\ mutex' = h
  /\ text' = [text EXCEPT ![h] = captured]
  /\ captured' = <<>>
  /\ Goto(h, "clear")
  /\ UNCHANGED <<sink, callback, capturing, pending, cb, done,
                 places>>

(* ... and lowers the flag before it unlocks. *)
TakeClear(h) ==
  /\ pc[h] = "clear"
  /\ pending' = FALSE
  /\ mutex' = None
  /\ Goto(h, "give")
  /\ UNCHANGED <<sink, callback, capturing, captured, cb, done, text, places>>

(* stanli_take_messages hands out a copy, or null when malloc has none. *)
TakeMessages(h) ==
  /\ pc[h] = "give"
  /\ \/ taken' = [taken EXCEPT ![h] = @ \o text[h]] /\ UNCHANGED unallocated
     \/ /\ text[h] # <<>>
        /\ unallocated' = unallocated \cup Range(text[h])
        /\ UNCHANGED taken
  /\ text' = [text EXCEPT ![h] = <<>>]
  /\ Goto(h, "idle")
  /\ UNCHANGED <<mutex, sink, callback, capturing, captured, pending, cb, done,
                 stdout, called, unheard>>

Next ==
  \/ \E t \in Emitters : \/ EmitToSink(t) \/ SinkReads(t) \/ SinkCalls(t)
                         \/ EmitCaptured(t) \/ CapturePending(t)
                         \/ EmitToStdout(t)
  \/ \E h \in Hosts :
       \/ \E c \in Callbacks \cup {None} : SetPrintCallback(h, c)
       \/ \E on \in BOOLEAN : SetMessageCapture(h, on)
       \/ SetMessageSink(h)
       \/ TakeCheck(h) \/ TakeSwap(h) \/ TakeClear(h) \/ TakeMessages(h)

Spec == Init /\ [][Next]_vars

(* Every emitter and host keeps executing the call it is in. *)
EmitterStep(t) == SinkReads(t) \/ SinkCalls(t) \/ CapturePending(t)
HostStep(h) ==
  SetMessageSink(h) \/ TakeSwap(h) \/ TakeClear(h) \/ TakeMessages(h)
FairSpec == /\ Spec
            /\ \A t \in Emitters : WF_vars(EmitterStep(t))
            /\ \A h \in Hosts : WF_vars(HostStep(h))

-----------------------------------------------------------------------------
(* The lines on which thread t is still working. *)
InHand == {Current(t) : t \in {u \in Emitters : pc[u] \in {"sink", "call"}}}

(* Where line m is: at a destination, on its way to one, or among the lost. *)
At(s, m) == {i \in DOMAIN s : s[i] = m}
HostSpots(place, f, m) == UNION {{<<place, h, i>> : i \in At(f[h], m)} : h \in Hosts}
Spots(m) ==
  {<<"stdout", i>> : i \in At(stdout, m)} \cup {<<"captured", i>> : i \in At(captured, m)}
  \cup {<<"called", i>> : i \in {j \in DOMAIN called : called[j][2] = m}}
  \cup HostSpots("text", text, m) \cup HostSpots("taken", taken, m)
  \cup {<<"hand">> : x \in InHand \cap {m}}
  \cup {<<"unheard">> : x \in unheard \cap {m}}
  \cup {<<"unallocated">> : x \in unallocated \cap {m}}

(* A line that was emitted is in one place: no swap or append loses one, or  *)
(* delivers it twice, however emitters and collectors interleave.  Captured  *)
(* text has its flag up outside the mutex, or take_captured_messages would   *)
(* pass it by.                                                              *)
EachLineOnce ==
  /\ TypeOK
  /\ \A m \in Message : Cardinality(Spots(m)) = IF m[2] <= done[m[1]] THEN 1 ELSE 0
  /\ mutex = None /\ captured # <<>> => pending

InOrder(s) ==
  \A i, j \in DOMAIN s : i < j /\ s[i][1] = s[j][1] => s[i][2] < s[j][2]

(* "in emission order": at every destination, each collecting host included, *)
(* the lines of one emitter come in the order it emitted them.              *)
EmissionOrder ==
  /\ InOrder(stdout)
  /\ \A h \in Hosts : InOrder(taken[h] \o text[h] \o captured)
  /\ InOrder([i \in DOMAIN called |-> called[i][2]])

(* Once every bs_set_print_callback has returned, no call of a former        *)
(* callback is running: the client may free it.                             *)
FormerCallbackQuiet ==
  (\A h \in Hosts : pc[h] # "install") =>
     \A t \in Emitters : pc[t] = "call" => cb[t] = callback

(* A host that is waiting for the mutex gets it; an emitter gets out. *)
CallsReturn == \A t \in Threads : pc[t] # "idle" ~> pc[t] = "idle"
-----------------------------------------------------------------------------
(* A line on its way to a callback is printed when the callback has had it,  *)
(* text is collected at the swap.                                           *)
Printed(t) == done[t] - IF pc[t] \in {"sink", "call"} THEN 1 ELSE 0

Log == INSTANCE MessageLog WITH
  listening <- sink,
  printed   <- [t \in Emitters |-> Printed(t)],
  out       <- stdout,
  heard     <- called,
  buffer    <- captured,
  mail      <- [h \in Hosts |-> taken[h] \o text[h]],
  lost      <- unheard \cup unallocated

(* For those who print and collect, emit_message and take_captured_messages  *)
(* are atomic: each line goes to the destination in force as it is printed,  *)
(* and a collector takes all the captured text there is, and only that.      *)
ImplementsLog == Log!Spec
=============================================================================
