------------------------------ MODULE FileStore ------------------------------
(***************************************************************************)
(* What the file system promises: named byte strings that change only by   *)
(* the operation named, whatever blocks they lie in, and that a crash      *)
(* leaves alone once they were flushed.                                    *)
(***************************************************************************)
EXTENDS Integers, Sequences

CONSTANTS Names, Bytes, Spans, Sizes, MAXFILESIZE

VARIABLES
  call,     \* the last operation called: <<its name, its arguments>>
  files,    \* files[n]: <<>> if there is no file n, <<s>> if its content is s
  durable,  \* files flushed and not changed since
  full      \* the disk is full

vars == <<call, files, durable, full>>

Min2(a, b) == IF a < b THEN a ELSE b
Max2(a, b) == IF a < b THEN b ELSE a

Init == call = <<"boot">> /\ durable = Names

\* Only file n changes, and only it may lose its promise.
Only(n) ==
  /\ \A m \in Names \ {n} : files'[m] = files[m]
  /\ durable' = durable \ {n}

\* Creating fails on a full disk.
Create(n) ==
  /\ call' = <<"create", n>>
  /\ files'[n] # <<>> \/ full'
  /\ files[n] # <<>> \/ files'[n] = <<>> => files'[n] = files[n]
  /\ files[n] = <<>> /\ files'[n] # <<>> => files'[n] = <<(<<>>)>>
  /\ Only(n)

\* A write falls short only on a full disk or beyond the largest size.  Bytes
\* between the old end and the span are not specified.
Write(n, s, v) ==
  /\ call' = <<"write", n, s, v>>
  /\ files[n] # <<>> /\ files'[n] # <<>>
  /\ LET old == files[n][1]
         new == files'[n][1]
         span == s.offset + 1 .. s.offset + s.count
     IN  /\ Len(new) = Max2(Len(old), s.offset + s.count)
         /\ \A k \in 1 .. Len(old) : new[k] = old[k] \/ (k \in span /\ new[k] = v)
         /\ full' \/ s.offset + s.count > MAXFILESIZE \/ \A k \in span : new[k] = v
  /\ Only(n)

SetSize(n, size) ==
  /\ call' = <<"set_size", n, size>>
  /\ files[n] # <<>> /\ files'[n] # <<>>
  /\ LET old == files[n][1]
         new == files'[n][1]
     IN  Len(new) = size /\ \A k \in 1 .. Min2(size, Len(old)) : new[k] = old[k]
  /\ Only(n)

Flush(n) == call' = <<"flush", n>> /\ UNCHANGED files /\ durable' \in {durable, durable \cup {n}}

Sync == call' = <<"sync">> /\ UNCHANGED files /\ durable' \in {durable, Names}

\* Opening and reading.
Look == call' = <<"look">> /\ UNCHANGED <<files, durable>>

\* The operation goes on, and a flush ends.
Progress ==
  /\ UNCHANGED call
  /\ UNCHANGED files
  /\ \/ durable' = durable
     \/ call = <<"sync">> /\ durable' = Names
     \/ \E n \in Names : call = <<"flush", n>> /\ durable' = durable \cup {n}

\* What was not flushed may be lost or come back as it was before.
Crash ==
  /\ call' = <<"boot">>
  /\ \A n \in durable : files'[n] = files[n]
  /\ durable' = Names

Next ==
  \/ Progress
  \/ \E n \in Names :
       \/ Create(n)
       \/ \E s \in Spans, v \in Bytes \ {0} : Write(n, s, v)
       \/ \E size \in Sizes : SetSize(n, size)
       \/ Flush(n)
  \/ Look
  \/ Sync
  \/ Crash

Spec == Init /\ [][Next]_vars

=============================================================================
