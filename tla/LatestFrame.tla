---------------------------- MODULE LatestFrame ----------------------------
(***************************************************************************)
(* What the frame ring promises its users, with nothing of how: a          *)
(* single-writer register that keeps only the newest frame, whose readers  *)
(* pin the frame they read.                                                *)
(*                                                                         *)
(* A frame becomes visible (its slot turns READY) one step before it is    *)
(* announced (last_ready names it), so a read that overlaps a publication  *)
(* may return either frame: the register is regular, not atomic.  A read   *)
(* never returns a frame older than the newest one announced when the read *)
(* began, and while a reader keeps a frame nothing may change it.          *)
(***************************************************************************)
EXTENDS Naturals

CONSTANTS Consumers,   \* the readers
          Tries        \* newer frames a read must lose to before it may miss

VARIABLES newest,      \* frames announced so far; the newest one's number
          visible,     \* newest, or newest + 1 while a publication is half done
          reading,     \* readers between the start of a read and its result
          since,       \* reader -> newest when its read began
          held         \* reader -> the frame it keeps, 0 for none

lfVars == <<newest, visible, reading, since, held>>

LFInit == /\ newest = 0
          /\ visible = 0
          /\ reading = {}
          /\ since = [c \in Consumers |-> 0]
          /\ held = [c \in Consumers |-> 0]

\* The writer completes the payload of the next frame and makes it visible.
MakeVisible == /\ visible = newest
               /\ visible' = newest + 1
               /\ UNCHANGED <<newest, reading, since, held>>

\* The writer announces the frame it made visible.
Announce == /\ visible = newest + 1
            /\ newest' = visible
            /\ UNCHANGED <<visible, reading, since, held>>

\* A read begins: there is a frame to read.
BeginRead(c) == /\ c \notin reading
                /\ held[c] = 0
                /\ newest > 0
                /\ reading' = reading \cup {c}
                /\ since' = [since EXCEPT ![c] = newest]
                /\ UNCHANGED <<newest, visible, held>>

\* It succeeds: any frame from the one announced when it began to the one
\* visible now.
EndRead(c) == /\ c \in reading
              /\ reading' = reading \ {c}
              /\ \E f \in since[c] .. visible : held' = [held EXCEPT ![c] = f]
              /\ since' = [since EXCEPT ![c] = 0]
              /\ UNCHANGED <<newest, visible>>

\* It fails: only when the writer outran it Tries times.
MissRead(c) == /\ c \in reading
               /\ newest >= since[c] + Tries
               /\ reading' = reading \ {c}
               /\ since' = [since EXCEPT ![c] = 0]
               /\ UNCHANGED <<newest, visible, held>>

\* The reader lets its frame go.
Unpin(c) == /\ held[c] # 0
            /\ held' = [held EXCEPT ![c] = 0]
            /\ UNCHANGED <<newest, visible, reading, since>>

LFNext == \/ MakeVisible
          \/ Announce
          \/ \E c \in Consumers : BeginRead(c) \/ EndRead(c) \/ MissRead(c) \/ Unpin(c)

LFSpec == LFInit /\ [][LFNext]_lfVars
=============================================================================
