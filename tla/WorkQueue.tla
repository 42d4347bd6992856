------------------------------ MODULE WorkQueue ------------------------------
(* The controller's work queue (clients/controller/internal/workqueue): a   *)
(* FIFO of single routes and of batch groups, in order of first observation. *)
(* A queue is [items, known]; known is the caller's knownSingles map. Wall   *)
(* time is one bit of a group: its idle timeout has run out.                 *)
EXTENDS Naturals, Sequences, SequencesExt

CONSTANT NoBatch          \* a route without the vrata.io/batch annotation

EmptyQueue == [items |-> << >>, known |-> {}]

\* Item and BatchGroup in one record; a single route is an item of one member.
Single(ref) == [batch |-> NoBatch, members |-> <<ref>>, size |-> 0, idle |-> FALSE]
NewGroup(b) == [batch |-> b, members |-> << >>, size |-> 0, idle |-> FALSE]

\* parseSize: a value that is not a number means no expected size.
parseSize(annotation) == IF annotation \in Nat THEN annotation ELSE 0

\* Mutant of IsReady: only a complete group is ready.
IsReadyComplete(group) == group.size > 0 /\ Len(group.members) >= group.size

IsReady(group) ==
  \/ group.size > 0 /\ Len(group.members) >= group.size
  \/ group.idle

IsIncomplete(group) == group.size > 0 /\ Len(group.members) < group.size

\* A single route is queued once for as long as the process lives: the caller
\* never takes a key out of knownSingles.
ObserveSingle(q, ref) ==
  IF ref \in q.known THEN q
  ELSE [items |-> Append(q.items, Single(ref)), known |-> q.known \cup {ref}]

\* The first member creates the group at the tail, the first size wins, and a
\* new member restarts the idle timeout.
ObserveMember(q, ref, b, size) ==
  LET queued == \E n \in DOMAIN q.items : q.items[n].batch = b
      items == IF queued THEN q.items ELSE Append(q.items, NewGroup(b))
      n == CHOOSE m \in DOMAIN items : items[m].batch = b
      sized == [items[n] EXCEPT !.size = IF @ = 0 THEN size ELSE @]
      grown == IF Contains(sized.members, ref) THEN sized
               ELSE [sized EXCEPT !.members = Append(@, ref), !.idle = FALSE]
  IN  [q EXCEPT !.items = [items EXCEPT ![n] = grown]]

Observe(q, ref, ann) ==
  IF ann.batch = NoBatch THEN ObserveSingle(q, ref)
  ELSE ObserveMember(q, ref, ann.batch, parseSize(ann.size))

Pop(q) == [q EXCEPT !.items = Tail(@)]

\* The idle timeout of the n-th item, a group, runs out.
IdleTimeout(q, n) == [q EXCEPT !.items[n].idle = TRUE]

QueuedRefs(q) == UNION {ToSet(q.items[n].members) : n \in DOMAIN q.items}
=============================================================================
