----------------------------- MODULE MessageLog -----------------------------
(***************************************************************************)
(* What the message sink promises those who print and those who collect,   *)
(* without a mutex, a flag or calls under way: a line is printed to its    *)
(* destination at once, in one place and in its emitter's order, and a host*)
(* that collects gets the whole text there is.                             *)
(***************************************************************************)
EXTENDS Integers, Sequences, Functions

CONSTANTS Emitters, Hosts, Callbacks, MaxMessages

VARIABLES listening,   \* a print callback is installed
          capturing,   \* lines go to the captured text
          printed,     \* how many lines each emitter has printed
          out, heard,  \* the lines on stdout, the lines callbacks were given
          buffer,      \* the captured text
          mail,        \* the text each host has collected
          lost         \* lines for a null callback, or that found no memory

vars == <<listening, capturing, printed, out, heard, buffer, mail, lost>>

Init == /\ listening = FALSE /\ capturing = FALSE
        /\ printed = [t \in Emitters |-> 0]
        /\ out = <<>> /\ heard = <<>> /\ buffer = <<>> /\ lost = {}
        /\ mail = [h \in Hosts |-> <<>>]

Line(t) == <<t, printed[t] + 1>>
Counted(t) == /\ printed[t] < MaxMessages
              /\ printed' = [printed EXCEPT ![t] = @ + 1]
              /\ UNCHANGED <<listening, capturing, mail>>

PrintOut(t) == /\ ~listening /\ ~capturing /\ Counted(t)
               /\ out' = Append(out, Line(t))
               /\ UNCHANGED <<heard, buffer, lost>>

PrintCaptured(t) == /\ ~listening /\ capturing /\ Counted(t)
                    /\ buffer' = Append(buffer, Line(t))
                    /\ UNCHANGED <<out, heard, lost>>

PrintHeard(t, c) == /\ listening /\ Counted(t)
                    /\ heard' = Append(heard, <<c, Line(t)>>)
                    /\ UNCHANGED <<out, buffer, lost>>

PrintUnheard(t) == /\ listening /\ Counted(t)
                   /\ lost' = lost \cup {Line(t)}
                   /\ UNCHANGED <<out, heard, buffer>>

Listen(on) == /\ listening' = on
              /\ UNCHANGED <<capturing, printed, out, heard, buffer, mail, lost>>

Capture(on) == /\ capturing' = on
               /\ UNCHANGED <<listening, printed, out, heard, buffer, mail, lost>>

Collect(h) == /\ mail' = [mail EXCEPT ![h] = @ \o buffer]
              /\ buffer' = <<>>
              /\ UNCHANGED <<listening, capturing, printed, out, heard, lost>>

(* The newest part s of what h collected cannot be handed out. *)
Forget(h) == /\ \E n \in 0 .. Len(mail[h]) :
                  LET kept == SubSeq(mail[h], 1, n)
                      s == SubSeq(mail[h], n + 1, Len(mail[h]))
                  IN /\ mail' = [mail EXCEPT ![h] = kept]
                     /\ lost' = lost \cup Range(s)
             /\ UNCHANGED <<listening, capturing, printed, out, heard, buffer>>

Next == \/ \E t \in Emitters : \/ PrintOut(t) \/ PrintCaptured(t) \/ PrintUnheard(t)
                               \/ \E c \in Callbacks : PrintHeard(t, c)
        \/ \E on \in BOOLEAN : Listen(on) \/ Capture(on)
        \/ \E h \in Hosts : Collect(h) \/ Forget(h)

Spec == Init /\ [][Next]_vars
=============================================================================
