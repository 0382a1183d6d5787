----------------------------- MODULE FileProofs -----------------------------
(***************************************************************************)
(* Proofs about the sinks that write to files, for every number of files,  *)
(* messages, failing calls and crashes.  A rotation of the rotating sink   *)
(* keeps the messages in order, drops those of the oldest file only, and   *)
(* leaves no file larger than it may be.  The daily and hourly sinks write *)
(* each message in its period, and delete the oldest files and no others.  *)
(***************************************************************************)
EXTENDS RotatingFile, TimedFile, FiniteSetTheorems, SequenceTheorems, TLAPS

Logged == [id : Nat, size : Nat \ {0}, time : Nat, whole : BOOLEAN]

(* A file_helper, and the files of a directory.                            *)
IsRecord(h) ==
  /\ h \in [dir : [DOMAIN h.dir -> Seq(Logged)], filename : Nat, isOpen : BOOLEAN,
            buffer : Seq(Logged), unlinked : BOOLEAN]
  /\ DOMAIN h.dir \subseteq Nat

IsHelper(h) ==
  /\ IsRecord(h)
  /\ h.isOpen => Exists(h, h.filename) \/ h.unlinked
  /\ h.buffer # <<>> => h.isOpen

----------------------------------------------------------------------------
(* What the calls of the file_helper leave. *)

(* The fields of a helper one of whose fields is replaced.                 *)
LEMMA HelperFields ==
  ASSUME NEW h, IsRecord(h), NEW x
  PROVE  /\ h = [dir |-> h.dir, filename |-> h.filename, isOpen |-> h.isOpen,
                 buffer |-> h.buffer, unlinked |-> h.unlinked]
         /\ [h EXCEPT !.dir = x] =
              [dir |-> x, filename |-> h.filename, isOpen |-> h.isOpen,
               buffer |-> h.buffer, unlinked |-> h.unlinked]
         /\ [h EXCEPT !.filename = x] =
              [dir |-> h.dir, filename |-> x, isOpen |-> h.isOpen,
               buffer |-> h.buffer, unlinked |-> h.unlinked]
         /\ [h EXCEPT !.isOpen = x] =
              [dir |-> h.dir, filename |-> h.filename, isOpen |-> x,
               buffer |-> h.buffer, unlinked |-> h.unlinked]
         /\ [h EXCEPT !.buffer = x] =
              [dir |-> h.dir, filename |-> h.filename, isOpen |-> h.isOpen,
               buffer |-> x, unlinked |-> h.unlinked]
         /\ [h EXCEPT !.unlinked = x] =
              [dir |-> h.dir, filename |-> h.filename, isOpen |-> h.isOpen,
               buffer |-> h.buffer, unlinked |-> x]
  BY DEF IsRecord

(* flush moves the buffer to the end of the open file.                     *)
LEMMA FlushedHelper ==
  ASSUME NEW h, IsHelper(h)
  PROVE  /\ IsHelper(Flushed(h))
         /\ Flushed(h).filename = h.filename /\ Flushed(h).isOpen = h.isOpen
         /\ Flushed(h).unlinked = h.unlinked /\ Flushed(h).buffer = <<>>
         /\ DOMAIN Flushed(h).dir = DOMAIN h.dir
         /\ \A n : Stored(Flushed(h), n) =
                     IF h.isOpen /\ ~h.unlinked /\ n = h.filename
                     THEN Stored(h, n) \o h.buffer ELSE Stored(h, n)
<1>1. CASE h.isOpen /\ ~h.unlinked
  <2>1. PICK d, f, b : d = h.dir /\ f = h.filename /\ b = h.buffer
    OBVIOUS
  <2>2. f \in DOMAIN d /\ b \in Seq(Logged) /\ d \in [DOMAIN d -> Seq(Logged)]
    BY <1>1, <2>1 DEF IsHelper, IsRecord, Exists
  <2>3. PICK e : e = [d EXCEPT ![f] = @ \o b]
    OBVIOUS
  <2>4. d[f] \o b \in Seq(Logged)
    BY <2>2
  <2>5. /\ e \in [DOMAIN d -> Seq(Logged)] /\ DOMAIN e = DOMAIN d
        /\ \A n \in DOMAIN d : e[n] = IF n = f THEN d[n] \o b ELSE d[n]
    BY <2>2, <2>3, <2>4
  <2>6. PICK g : g = [h EXCEPT !.dir = e]
    OBVIOUS
  <2>7. g = [dir |-> e, filename |-> f, isOpen |-> h.isOpen, buffer |-> b,
             unlinked |-> h.unlinked]
    BY <2>1, <2>6, HelperFields DEF IsHelper
  <2>8. IsHelper(g)
    BY <1>1, <2>1, <2>2, <2>5, <2>7 DEF IsHelper, IsRecord, Exists
  <2>9. Flushed(h) = [g EXCEPT !.buffer = <<>>]
    BY <1>1, <2>1, <2>3, <2>6, Zenon DEF Flushed
  <2>10. Flushed(h) = [dir |-> e, filename |-> f, isOpen |-> h.isOpen, buffer |-> <<>>,
                       unlinked |-> h.unlinked]
    BY <2>7, <2>8, <2>9, HelperFields DEF IsHelper
  <2>11. PICK k : k = Flushed(h)
    OBVIOUS
  <2>12. /\ k.dir = e /\ k.filename = f /\ k.isOpen = h.isOpen /\ k.buffer = <<>>
         /\ k.unlinked = h.unlinked
    BY <2>10, <2>11
  <2>13. IsHelper(k)
    BY <1>1, <2>1, <2>2, <2>5, <2>10, <2>11, <2>12 DEF IsHelper, IsRecord, Exists
  <2>14. \A n : Stored(k, n) = IF n = f THEN Stored(h, n) \o b ELSE Stored(h, n)
    BY <2>1, <2>2, <2>5, <2>12 DEF Exists, Stored
  <2> QED
    BY <1>1, <2>1, <2>5, <2>11, <2>12, <2>13, <2>14
<1>2. CASE ~(h.isOpen /\ ~h.unlinked)
  <2>1. Flushed(h) = [dir |-> h.dir, filename |-> h.filename, isOpen |-> h.isOpen,
                      buffer |-> <<>>, unlinked |-> h.unlinked]
    BY <1>2, HelperFields DEF Flushed, IsHelper
  <2> QED
    BY <1>2, <2>1 DEF IsHelper, IsRecord, Exists, Stored
<1> QED
  BY <1>1, <1>2

(* close flushes too.                                                      *)
LEMMA ClosedHelper ==
  ASSUME NEW h, IsHelper(h)
  PROVE  /\ IsHelper(Closed(h))
         /\ Closed(h).filename = h.filename /\ Closed(h).buffer = <<>>
         /\ ~Closed(h).isOpen /\ ~Closed(h).unlinked
         /\ DOMAIN Closed(h).dir = DOMAIN h.dir
         /\ \A n : Stored(Closed(h), n) = Stored(Flushed(h), n)
<1>1. PICK f : f = Flushed(h)
  OBVIOUS
<1>2. IsHelper(f) /\ f.buffer = <<>> /\ f.filename = h.filename /\ DOMAIN f.dir = DOMAIN h.dir
  BY <1>1, FlushedHelper
<1>3. PICK g : g = [f EXCEPT !.isOpen = FALSE]
  OBVIOUS
<1>4. g = [dir |-> f.dir, filename |-> f.filename, isOpen |-> FALSE, buffer |-> f.buffer,
           unlinked |-> f.unlinked]
  BY <1>2, <1>3, HelperFields DEF IsHelper
<1>5. IsHelper(g)
  BY <1>2, <1>4 DEF IsHelper, IsRecord
<1>6. PICK c : c = [g EXCEPT !.unlinked = FALSE]
  OBVIOUS
<1>7. c = [dir |-> f.dir, filename |-> f.filename, isOpen |-> FALSE, buffer |-> f.buffer,
           unlinked |-> FALSE]
  BY <1>4, <1>5, <1>6, HelperFields DEF IsHelper
<1>8. Closed(h) = c
  BY <1>1, <1>3, <1>6, Zenon DEF Closed
<1>9. IsHelper(c)
  BY <1>2, <1>7 DEF IsHelper, IsRecord
<1>10. /\ c.dir = f.dir /\ c.filename = f.filename /\ c.isOpen = FALSE /\ c.buffer = f.buffer
       /\ c.unlinked = FALSE
  BY <1>7
<1>11. \A n : Stored(c, n) = Stored(f, n)
  BY <1>10 DEF Stored, Exists
<1> QED
  BY <1>1, <1>2, <1>8, <1>9, <1>10, <1>11

(* fopen_s: the named file is there afterwards, empty if it was new or has *)
(* been truncated, and the other files are as they were.                   *)
LEMMA FopenDirectory ==
  ASSUME NEW d, d \in [DOMAIN d -> Seq(Logged)], NEW name, NEW mode \in {"wb", "ab"}
  PROVE  /\ DOMAIN Fopen(d, name, mode) = DOMAIN d \cup {name}
         /\ Fopen(d, name, mode) \in [DOMAIN d \cup {name} -> Seq(Logged)]
         /\ \A n \in DOMAIN d \cup {name} :
              Fopen(d, name, mode)[n] =
                IF n = name /\ (mode = "wb" \/ name \notin DOMAIN d) THEN <<>> ELSE d[n]
  BY DEF Fopen

(* open closes the file that was open, and opens the other to append.      *)
LEMMA OpenedHelper ==
  ASSUME NEW h, IsHelper(h), NEW name \in Nat, NEW truncate \in BOOLEAN
  PROVE  LET g == Opened(h, name, truncate)
         IN  /\ IsHelper(g)
             /\ g.filename = name /\ g.isOpen /\ ~g.unlinked /\ g.buffer = <<>>
             /\ DOMAIN g.dir = DOMAIN h.dir \cup {name}
             /\ \A n : Stored(g, n) =
                         IF truncate /\ n = name THEN <<>> ELSE Stored(Closed(h), n)
<1>1. PICK c : c = Closed(h)
  OBVIOUS
<1>2. /\ IsHelper(c) /\ c.buffer = <<>> /\ ~c.isOpen /\ ~c.unlinked
      /\ DOMAIN c.dir = DOMAIN h.dir
  BY <1>1, ClosedHelper
<1>3. PICK b, d, e : /\ b = c.dir
                     /\ d = IF truncate THEN Fopen(b, name, "wb") ELSE b
                     /\ e = Fopen(d, name, "ab")
  OBVIOUS
<1>4. b \in [DOMAIN b -> Seq(Logged)] /\ DOMAIN b \subseteq Nat
  BY <1>2, <1>3 DEF IsHelper, IsRecord
<1>5. /\ d \in [DOMAIN d -> Seq(Logged)] /\ DOMAIN d \subseteq DOMAIN b \cup {name}
      /\ DOMAIN b \subseteq DOMAIN d
      /\ \A n \in DOMAIN d : d[n] = IF truncate /\ n = name THEN <<>> ELSE b[n]
  <2>1. CASE truncate
    BY <1>3, <1>4, <2>1 DEF Fopen
  <2>2. CASE ~truncate
    BY <1>3, <1>4, <2>2
  <2> QED
    BY <2>1, <2>2
<1>6. /\ e \in [DOMAIN b \cup {name} -> Seq(Logged)] /\ DOMAIN e = DOMAIN b \cup {name}
      /\ \A n \in DOMAIN e :
           e[n] = IF n \in DOMAIN b /\ ~(truncate /\ n = name) THEN b[n] ELSE <<>>
  BY <1>3, <1>4, <1>5 DEF Fopen
<1>7. PICK f : f = [c EXCEPT !.filename = name]
  OBVIOUS
<1>8. f = [dir |-> c.dir, filename |-> name, isOpen |-> c.isOpen, buffer |-> c.buffer,
           unlinked |-> c.unlinked]
  BY <1>2, <1>7, HelperFields DEF IsHelper
<1>9. IsRecord(f)
  BY <1>2, <1>8 DEF IsHelper, IsRecord
<1>10. PICK o : o = [f EXCEPT !.isOpen = TRUE]
  OBVIOUS
<1>11. o = [dir |-> f.dir, filename |-> f.filename, isOpen |-> TRUE, buffer |-> f.buffer,
            unlinked |-> f.unlinked]
  BY <1>9, <1>10, HelperFields
<1>12. IsRecord(o)
  BY <1>9, <1>11 DEF IsRecord
<1>13. PICK g : g = [o EXCEPT !.dir = e]
  OBVIOUS
<1>14. g = [dir |-> e, filename |-> o.filename, isOpen |-> o.isOpen, buffer |-> o.buffer,
            unlinked |-> o.unlinked]
  BY <1>12, <1>13, HelperFields
<1>15. Opened(h, name, truncate) = g
  BY <1>1, <1>3, <1>7, <1>10, <1>13, Zenon DEF Opened
<1>16. /\ g.dir = e /\ g.filename = name /\ g.isOpen = TRUE /\ g.buffer = c.buffer
       /\ g.unlinked = c.unlinked
  <2>1. f.filename = name /\ f.buffer = c.buffer /\ f.unlinked = c.unlinked
    BY <1>8
  <2>2. /\ o.filename = f.filename /\ o.isOpen = TRUE /\ o.buffer = f.buffer
        /\ o.unlinked = f.unlinked
    BY <1>11
  <2>3. /\ g.dir = e /\ g.filename = o.filename /\ g.isOpen = o.isOpen
        /\ g.buffer = o.buffer /\ g.unlinked = o.unlinked
    BY <1>14
  <2> QED
    BY <2>1, <2>2, <2>3
<1>17. IsRecord(g)
  BY <1>4, <1>6, <1>12, <1>14 DEF IsRecord
<1>18. IsHelper(g)
  BY <1>2, <1>6, <1>16, <1>17 DEF IsHelper, Exists
<1>19. \A n : Stored(g, n) = IF truncate /\ n = name THEN <<>> ELSE Stored(c, n)
  BY <1>3, <1>6, <1>16 DEF Stored, Exists
<1> QED
  BY <1>1, <1>2, <1>3, <1>6, <1>15, <1>16, <1>18, <1>19
(* open that gives up leaves no file open, and perhaps an empty one.       *)
LEMMA NotOpenedHelper ==
  ASSUME NEW h, IsHelper(h), NEW name \in Nat, NEW truncate \in BOOLEAN,
         NEW g \in NotOpened(h, name, truncate)
  PROVE  /\ IsHelper(g)
         /\ g.filename = name /\ ~g.isOpen /\ ~g.unlinked /\ g.buffer = <<>>
         /\ \/ /\ DOMAIN g.dir = DOMAIN h.dir
               /\ \A n : Stored(g, n) = Stored(Closed(h), n)
            \/ /\ truncate
               /\ DOMAIN g.dir = DOMAIN h.dir \cup {name}
               /\ \A n : Stored(g, n) = IF n = name THEN <<>> ELSE Stored(Closed(h), n)
<1>1. PICK c : c = Closed(h)
  OBVIOUS
<1>2. /\ IsHelper(c) /\ c.buffer = <<>> /\ ~c.isOpen /\ ~c.unlinked
      /\ DOMAIN c.dir = DOMAIN h.dir
  BY <1>1, ClosedHelper
<1>3. PICK f : f = [c EXCEPT !.filename = name]
  OBVIOUS
<1>4. f = [dir |-> c.dir, filename |-> name, isOpen |-> c.isOpen, buffer |-> c.buffer,
           unlinked |-> c.unlinked]
  BY <1>2, <1>3, HelperFields DEF IsHelper
<1>5. /\ f.dir = c.dir /\ f.filename = name /\ f.isOpen = c.isOpen /\ f.buffer = c.buffer
      /\ f.unlinked = c.unlinked
  BY <1>4
<1>6. IsRecord(f)
  BY <1>2, <1>4 DEF IsHelper, IsRecord
<1>7. IsHelper(f)
  BY <1>2, <1>5, <1>6 DEF IsHelper
<1>8. \A n : Stored(f, n) = Stored(c, n)
  BY <1>5 DEF Stored, Exists
<1>9. PICK e : e = Fopen(f.dir, name, "wb")
  OBVIOUS
<1>10. PICK k : k = [f EXCEPT !.dir = e]
  OBVIOUS
<1>11. g = f \/ (truncate /\ g = k)
  <2>1. NotOpened(h, name, truncate) = {f} \cup IF truncate THEN {k} ELSE {}
    BY <1>1, <1>3, <1>9, <1>10, Zenon DEF NotOpened
  <2> QED
    BY <2>1
<1>12. k = [dir |-> e, filename |-> f.filename, isOpen |-> f.isOpen, buffer |-> f.buffer,
            unlinked |-> f.unlinked]
  BY <1>6, <1>10, HelperFields
<1>13. /\ k.dir = e /\ k.filename = f.filename /\ k.isOpen = f.isOpen /\ k.buffer = f.buffer
       /\ k.unlinked = f.unlinked
  BY <1>12
<1>14. f.dir \in [DOMAIN f.dir -> Seq(Logged)] /\ DOMAIN f.dir \subseteq Nat
  BY <1>6 DEF IsRecord
<1>15. DOMAIN e = DOMAIN f.dir \cup {name} /\ e \in [DOMAIN e -> Seq(Logged)]
  BY <1>9, <1>14, FopenDirectory
<1>16. IsRecord(k)
  BY <1>6, <1>12, <1>14, <1>15 DEF IsRecord
<1>17. IsHelper(k)
  BY <1>2, <1>5, <1>13, <1>16 DEF IsHelper
<1>18. /\ DOMAIN k.dir = DOMAIN f.dir \cup {name}
       /\ \A n : Stored(k, n) = IF n = name THEN <<>> ELSE Stored(f, n)
  <2>1. \A n \in DOMAIN e : e[n] = IF n = name THEN <<>> ELSE f.dir[n]
    BY <1>9, <1>14, <1>15 DEF Fopen
  <2> QED
    BY <1>13, <1>15, <2>1 DEF Stored, Exists
<1>19. CASE g = f
  BY <1>1, <1>2, <1>5, <1>7, <1>8, <1>19
<1>20. CASE truncate /\ g = k
  BY <1>1, <1>2, <1>5, <1>8, <1>13, <1>17, <1>18, <1>20
<1> QED
  BY <1>11, <1>19, <1>20

(* write adds a message to the buffer, if a file is open.                  *)
LEMMA WrittenHelper ==
  ASSUME NEW h, IsHelper(h), NEW m \in Logged
  PROVE  /\ IsHelper(Written(h, m))
         /\ Written(h, m).dir = h.dir
         /\ Written(h, m).filename = h.filename /\ Written(h, m).isOpen = h.isOpen
         /\ Written(h, m).unlinked = h.unlinked
         /\ Written(h, m).buffer = IF h.isOpen THEN Append(h.buffer, m) ELSE h.buffer
         /\ \A n : Stored(Written(h, m), n) = Stored(h, n)
<1>1. CASE h.isOpen
  <2>1. PICK b : b = Append(h.buffer, m)
    OBVIOUS
  <2>2. b \in Seq(Logged)
    BY <2>1 DEF IsHelper, IsRecord
  <2>3. PICK g : g = [h EXCEPT !.buffer = b]
    OBVIOUS
  <2>4. Written(h, m) = g
    BY <1>1, <2>1, <2>3, Zenon DEF Written
  <2>5. g = [dir |-> h.dir, filename |-> h.filename, isOpen |-> h.isOpen, buffer |-> b,
             unlinked |-> h.unlinked]
    BY <2>3, HelperFields DEF IsHelper
  <2>6. /\ g.dir = h.dir /\ g.filename = h.filename /\ g.isOpen = h.isOpen /\ g.buffer = b
        /\ g.unlinked = h.unlinked
    BY <2>5
  <2>7. IsRecord(g)
    BY <2>2, <2>5 DEF IsHelper, IsRecord
  <2>8. IsHelper(g)
    BY <1>1, <2>6, <2>7 DEF IsHelper, Exists
  <2>9. \A n : Stored(g, n) = Stored(h, n)
    BY <2>6 DEF Stored, Exists
  <2> QED
    BY <1>1, <2>1, <2>4, <2>6, <2>8, <2>9
<1>2. CASE ~h.isOpen
  BY <1>2 DEF Written
<1> QED
  BY <1>1, <1>2

(* What is buffered is replaced.                                           *)
LEMMA BufferedHelper ==
  ASSUME NEW h, IsHelper(h), h.isOpen, NEW b \in Seq(Logged)
  PROVE  LET g == [h EXCEPT !.buffer = b]
         IN  /\ IsHelper(g) /\ g.dir = h.dir /\ g.filename = h.filename /\ g.isOpen
             /\ g.unlinked = h.unlinked /\ g.buffer = b
             /\ \A n : Stored(g, n) = Stored(h, n)
<1>1. PICK g : g = [h EXCEPT !.buffer = b]
  OBVIOUS
<1>2. g = [dir |-> h.dir, filename |-> h.filename, isOpen |-> h.isOpen, buffer |-> b,
           unlinked |-> h.unlinked]
  BY <1>1, HelperFields DEF IsHelper
<1>3. /\ g.dir = h.dir /\ g.filename = h.filename /\ g.isOpen /\ g.buffer = b
      /\ g.unlinked = h.unlinked
  BY <1>2
<1>4. IsRecord(g)
  BY <1>2 DEF IsHelper, IsRecord
<1>5. IsHelper(g)
  BY <1>3, <1>4 DEF IsHelper, Exists
<1>6. \A n : Stored(g, n) = Stored(h, n)
  BY <1>3 DEF Stored, Exists
<1> QED
  BY <1>1, <1>3, <1>5, <1>6

(* os::remove takes a name out of the directory.                           *)
LEMMA RemovedHelper ==
  ASSUME NEW h, IsHelper(h), NEW name
  PROVE  LET g == Removed(h, name)
         IN  /\ IsHelper(g)
             /\ g.filename = h.filename /\ g.isOpen = h.isOpen /\ g.buffer = h.buffer
             /\ g.unlinked <=> h.unlinked \/ (h.isOpen /\ h.filename = name)
             /\ DOMAIN g.dir = DOMAIN h.dir \ {name}
             /\ \A n : Stored(g, n) = IF n = name THEN <<>> ELSE Stored(h, n)
<1>1. PICK d, u : /\ d = [n \in DOMAIN h.dir \ {name} |-> h.dir[n]]
                  /\ u = (h.unlinked \/ (h.isOpen /\ h.filename = name))
  OBVIOUS
<1>2. h.dir \in [DOMAIN h.dir -> Seq(Logged)] /\ DOMAIN h.dir \subseteq Nat
  BY DEF IsHelper, IsRecord
<1>3. /\ DOMAIN d = DOMAIN h.dir \ {name} /\ d \in [DOMAIN d -> Seq(Logged)]
      /\ \A n \in DOMAIN d : d[n] = h.dir[n]
  BY <1>1, <1>2
<1>4. PICK f : f = [h EXCEPT !.dir = d]
  OBVIOUS
<1>5. f = [dir |-> d, filename |-> h.filename, isOpen |-> h.isOpen, buffer |-> h.buffer,
           unlinked |-> h.unlinked]
  BY <1>4, HelperFields DEF IsHelper
<1>6. IsRecord(f)
  BY <1>2, <1>3, <1>5 DEF IsHelper, IsRecord
<1>7. PICK g : g = [f EXCEPT !.unlinked = u]
  OBVIOUS
<1>8. g = [dir |-> f.dir, filename |-> f.filename, isOpen |-> f.isOpen, buffer |-> f.buffer,
           unlinked |-> u]
  BY <1>6, <1>7, HelperFields
<1>9. f.unlinked = h.unlinked /\ f.isOpen = h.isOpen /\ f.filename = h.filename
      /\ f.dir = d /\ f.buffer = h.buffer
  BY <1>5
<1>10. g.unlinked = u /\ g.isOpen = f.isOpen /\ g.filename = f.filename
       /\ g.dir = f.dir /\ g.buffer = f.buffer
  BY <1>8
<1>11. Removed(h, name) = g
  BY <1>1, <1>4, <1>7, <1>9, Zenon DEF Removed
<1>12. u \in BOOLEAN
  BY <1>1
<1>13. IsRecord(g)
  BY <1>6, <1>8, <1>12 DEF IsRecord
<1>14. g.isOpen => Exists(g, g.filename) \/ g.unlinked
  BY <1>1, <1>3, <1>9, <1>10 DEF IsHelper, Exists
<1>15. IsHelper(g)
  BY <1>9, <1>10, <1>13, <1>14 DEF IsHelper
<1>16. \A n : Stored(g, n) = IF n = name THEN <<>> ELSE Stored(h, n)
  BY <1>3, <1>9, <1>10 DEF Stored, Exists
<1> QED
  BY <1>1, <1>3, <1>9, <1>10, <1>11, <1>15, <1>16
(* os::rename of a file that is not open takes the name of the target.     *)
LEMMA RenamedHelper ==
  ASSUME NEW h, IsHelper(h), NEW from, from \in DOMAIN h.dir, NEW to \in Nat, ~h.isOpen
  PROVE  LET g == Renamed(h, from, to)
         IN  /\ IsHelper(g)
             /\ g.filename = h.filename /\ g.isOpen = h.isOpen /\ g.buffer = h.buffer
             /\ g.unlinked = h.unlinked
             /\ DOMAIN g.dir = (DOMAIN h.dir \ {from}) \cup {to}
             /\ \A n : Stored(g, n) = IF n = to THEN Stored(h, from)
                                      ELSE IF n = from THEN <<>> ELSE Stored(h, n)
<1>1. PICK d : d = [n \in (DOMAIN h.dir \ {from}) \cup {to} |->
                      IF n = to THEN h.dir[from] ELSE h.dir[n]]
  OBVIOUS
<1>2. h.dir \in [DOMAIN h.dir -> Seq(Logged)] /\ DOMAIN h.dir \subseteq Nat
  BY DEF IsHelper, IsRecord
<1>3. /\ DOMAIN d = (DOMAIN h.dir \ {from}) \cup {to} /\ d \in [DOMAIN d -> Seq(Logged)]
      /\ \A n \in DOMAIN d : d[n] = IF n = to THEN h.dir[from] ELSE h.dir[n]
  BY <1>1, <1>2
<1>4. PICK g : g = [h EXCEPT !.dir = d]
  OBVIOUS
<1>5. g = [dir |-> d, filename |-> h.filename, isOpen |-> h.isOpen, buffer |-> h.buffer,
           unlinked |-> h.unlinked]
  BY <1>4, HelperFields DEF IsHelper
<1>6. IsRecord(g)
  BY <1>2, <1>3, <1>5 DEF IsHelper, IsRecord
<1>7. /\ g.dir = d /\ g.filename = h.filename /\ g.isOpen = h.isOpen /\ g.buffer = h.buffer
      /\ g.unlinked = h.unlinked
  BY <1>5
<1>8. Renamed(h, from, to) = g
  BY <1>1, <1>4, Zenon DEF Renamed
<1>9. IsHelper(g)
  BY <1>6, <1>7 DEF IsHelper
<1>10. \A n : Stored(g, n) = IF n = to THEN Stored(h, from)
                             ELSE IF n = from THEN <<>> ELSE Stored(h, n)
  BY <1>3, <1>7 DEF Stored, Exists
<1> QED
  BY <1>3, <1>7, <1>8, <1>9, <1>10

(* A crash closes the file, and the buffer is gone.                        *)
LEMMA CrashedHelper ==
  ASSUME NEW h, IsHelper(h)
  PROVE  LET g == Crashed(h)
         IN  /\ IsHelper(g)
             /\ g.filename = h.filename /\ ~g.isOpen /\ g.buffer = <<>> /\ ~g.unlinked
             /\ DOMAIN g.dir = DOMAIN h.dir
             /\ \A n : Stored(g, n) = Stored(h, n)
<1>1. PICK f : f = [h EXCEPT !.isOpen = FALSE]
  OBVIOUS
<1>2. f = [dir |-> h.dir, filename |-> h.filename, isOpen |-> FALSE, buffer |-> h.buffer,
           unlinked |-> h.unlinked]
  BY <1>1, HelperFields DEF IsHelper
<1>3. IsRecord(f)
  BY <1>2 DEF IsHelper, IsRecord
<1>4. PICK b : b = [f EXCEPT !.buffer = <<>>]
  OBVIOUS
<1>5. b = [dir |-> f.dir, filename |-> f.filename, isOpen |-> f.isOpen, buffer |-> <<>>,
           unlinked |-> f.unlinked]
  BY <1>3, <1>4, HelperFields
<1>6. IsRecord(b)
  BY <1>3, <1>5 DEF IsRecord
<1>7. PICK g : g = [b EXCEPT !.unlinked = FALSE]
  OBVIOUS
<1>8. g = [dir |-> b.dir, filename |-> b.filename, isOpen |-> b.isOpen, buffer |-> b.buffer,
           unlinked |-> FALSE]
  BY <1>6, <1>7, HelperFields
<1>9. IsRecord(g)
  BY <1>6, <1>8 DEF IsRecord
<1>10. /\ g.dir = h.dir /\ g.filename = h.filename /\ g.isOpen = FALSE /\ g.buffer = <<>>
       /\ g.unlinked = FALSE
  <2>1. f.dir = h.dir /\ f.filename = h.filename /\ f.isOpen = FALSE
    BY <1>2
  <2>2. b.dir = f.dir /\ b.filename = f.filename /\ b.isOpen = f.isOpen /\ b.buffer = <<>>
    BY <1>5
  <2>3. /\ g.dir = b.dir /\ g.filename = b.filename /\ g.isOpen = b.isOpen
        /\ g.buffer = b.buffer /\ g.unlinked = FALSE
    BY <1>8
  <2> QED
    BY <2>1, <2>2, <2>3
<1>11. Crashed(h) = g
  BY <1>1, <1>4, <1>7, Zenon DEF Crashed
<1> QED
  BY <1>9, <1>10, <1>11 DEF IsHelper, Stored, Exists
----------------------------------------------------------------------------
(* Sequences of messages, and their numbers. *)

(* The numbers in a sequence that is put together.                         *)
LEMMA IdsOfParts ==
  /\ Ids(<<>>) = {}
  /\ \A s, t \in Seq(Logged) : Ids(s \o t) = Ids(s) \cup Ids(t)
  /\ \A m \in Logged : Ids(<<m>>) = {m.id}
<1>1. Ids(<<>>) = {}
  BY DEF Ids
<1>2. ASSUME NEW s \in Seq(Logged), NEW t \in Seq(Logged)
      PROVE  Ids(s \o t) = Ids(s) \cup Ids(t)
  <2>1. ASSUME NEW k \in DOMAIN (s \o t) PROVE (s \o t)[k].id \in Ids(s) \cup Ids(t)
    <3>1. CASE k <= Len(s)
      BY <3>1 DEF Ids
    <3>2. CASE k > Len(s)
      <4>1. k - Len(s) \in DOMAIN t /\ (s \o t)[k] = t[k - Len(s)]
        BY <3>2
      <4> QED
        BY <4>1 DEF Ids
    <3> QED
      BY <3>1, <3>2
  <2>2. ASSUME NEW k \in DOMAIN s PROVE s[k].id \in Ids(s \o t)
    <3>1. k \in DOMAIN (s \o t) /\ (s \o t)[k] = s[k]
      OBVIOUS
    <3> QED
      BY <3>1 DEF Ids
  <2>3. ASSUME NEW k \in DOMAIN t PROVE t[k].id \in Ids(s \o t)
    <3>1. k + Len(s) \in DOMAIN (s \o t) /\ (s \o t)[k + Len(s)] = t[k]
      OBVIOUS
    <3> QED
      BY <3>1 DEF Ids
  <2> QED
    BY <2>1, <2>2, <2>3 DEF Ids
<1>3. \A m \in Logged : Ids(<<m>>) = {m.id}
  BY DEF Ids
<1> QED
  BY <1>1, <1>2, <1>3

(* One sequence is before another if its numbers are smaller.              *)
LEMMA BeforeIsOfIds ==
  ASSUME NEW s, NEW t
  PROVE  Before(s, t) <=> \A i \in Ids(s), j \in Ids(t) : i < j
  BY DEF Before, Ids

(* A sequence that is put together increases if its parts do, and the      *)
(* first is before the second.                                             *)
LEMMA IncreasingParts ==
  /\ Increasing(<<>>)
  /\ \A m \in Logged : Increasing(<<m>>)
  /\ \A s, t \in Seq(Logged) :
       Increasing(s \o t) <=> Increasing(s) /\ Increasing(t) /\ Before(s, t)
<1>1. Increasing(<<>>) /\ \A m \in Logged : Increasing(<<m>>)
  BY DEF Increasing
<1>2. ASSUME NEW s \in Seq(Logged), NEW t \in Seq(Logged)
      PROVE  Increasing(s \o t) <=> Increasing(s) /\ Increasing(t) /\ Before(s, t)
  <2>1. /\ \A k \in DOMAIN s : k \in DOMAIN (s \o t) /\ (s \o t)[k] = s[k]
        /\ \A k \in DOMAIN t :
             k + Len(s) \in DOMAIN (s \o t) /\ (s \o t)[k + Len(s)] = t[k]
        /\ \A k \in DOMAIN (s \o t) : k \notin DOMAIN s =>
             k - Len(s) \in DOMAIN t /\ (s \o t)[k] = t[k - Len(s)]
    OBVIOUS
  <2>2. PICK u : u = s \o t
    OBVIOUS
  <2>3. DOMAIN s = 1 .. Len(s) /\ DOMAIN t = 1 .. Len(t) /\ Len(s) \in Nat /\ Len(t) \in Nat
        /\ DOMAIN u = 1 .. Len(s) + Len(t)
    BY <2>2
  <2>4. ASSUME Increasing(u) PROVE Increasing(s) /\ Increasing(t) /\ Before(s, t)
    <3>1. Increasing(s)
      BY <2>1, <2>2, <2>4 DEF Increasing
    <3>2. ASSUME NEW j \in DOMAIN t, NEW k \in DOMAIN t, j < k PROVE t[j].id < t[k].id
      <4>1. /\ j + Len(s) \in DOMAIN u /\ k + Len(s) \in DOMAIN u /\ j + Len(s) < k + Len(s)
            /\ u[j + Len(s)] = t[j] /\ u[k + Len(s)] = t[k]
        BY <2>1, <2>2, <2>3, <3>2
      <4> QED
        BY <2>4, <4>1 DEF Increasing
    <3>3. ASSUME NEW j \in DOMAIN s, NEW k \in DOMAIN t PROVE s[j].id < t[k].id
      <4>1. /\ j \in DOMAIN u /\ k + Len(s) \in DOMAIN u /\ j < k + Len(s)
            /\ u[j] = s[j] /\ u[k + Len(s)] = t[k]
        BY <2>1, <2>2, <2>3
      <4> QED
        BY <2>4, <4>1 DEF Increasing
    <3> QED
      BY <3>1, <3>2, <3>3 DEF Increasing, Before
  <2>5. ASSUME Increasing(s), Increasing(t), Before(s, t),
               NEW j \in DOMAIN u, NEW k \in DOMAIN u, j < k
        PROVE  u[j].id < u[k].id
    <3>1. CASE k \in DOMAIN s
      <4>1. j \in DOMAIN s /\ u[j] = s[j] /\ u[k] = s[k]
        BY <2>1, <2>2, <2>3, <2>5, <3>1
      <4> QED
        BY <2>5, <3>1, <4>1 DEF Increasing
    <3>2. CASE j \in DOMAIN s /\ k \notin DOMAIN s
      <4>1. k - Len(s) \in DOMAIN t /\ u[k] = t[k - Len(s)] /\ u[j] = s[j]
        BY <2>1, <2>2, <3>2
      <4> QED
        BY <2>5, <3>2, <4>1 DEF Before
    <3>3. CASE j \notin DOMAIN s
      <4>1. /\ k - Len(s) \in DOMAIN t /\ u[k] = t[k - Len(s)]
            /\ j - Len(s) \in DOMAIN t /\ u[j] = t[j - Len(s)]
            /\ j - Len(s) < k - Len(s)
        <5>1. k \notin DOMAIN s
          BY <2>3, <2>5, <3>3
        <5>2. /\ k - Len(s) \in DOMAIN t /\ u[k] = t[k - Len(s)]
              /\ j - Len(s) \in DOMAIN t /\ u[j] = t[j - Len(s)]
          BY <2>1, <2>2, <3>3, <5>1
        <5>3. j \in Int /\ k \in Int /\ Len(s) \in Int
          BY <2>3
        <5> QED
          BY <2>5, <5>2, <5>3
      <4> QED
        BY <2>5, <4>1 DEF Increasing
    <3> QED
      BY <3>1, <3>2, <3>3
  <2> QED
    BY <2>2, <2>4, <2>5 DEF Increasing
<1> QED
  BY <1>1, <1>2
----------------------------------------------------------------------------
(* Sizes of sequences of messages. *)

(* A set of numbers from 0 without gaps has a largest one: the one before  *)
(* their number.                                                           *)
LEMMA LargestWithoutGaps ==
  ASSUME NEW M \in Nat, NEW S \in SUBSET (0 .. M), 0 \in S,
         \A k \in S : 0 .. k \subseteq S
  PROVE  Max(S) \in S /\ \A k \in S : k <= Max(S)
<1>1. IsFiniteSet(S)
  <2>1. IsFiniteSet(0 .. M)
    BY FS_Interval
  <2> QED
    BY <2>1, FS_Subset
<1>2. PICK c : c = Cardinality(S)
  OBVIOUS
<1>3. c \in Nat /\ c # 0
  BY <1>1, <1>2, FS_CardinalityType, FS_EmptySet
<1>4. ASSUME NEW k \in S PROVE k <= c - 1
  <2>1. k \in Nat /\ 0 .. k \subseteq S
    OBVIOUS
  <2>2. Cardinality(0 .. k) = k + 1
    <3>1. Cardinality(0 .. k) = IF 0 > k THEN 0 ELSE k - 0 + 1
      BY <2>1, FS_Interval
    <3> QED
      BY <2>1, <3>1
  <2>3. Cardinality(0 .. k) <= c
    BY <1>1, <1>2, <2>1, FS_Subset
  <2> QED
    BY <1>3, <2>1, <2>2, <2>3
<1>5. c - 1 \in S
  <2> SUFFICES ASSUME c - 1 \notin S PROVE FALSE
    OBVIOUS
  <2>1. S \subseteq 0 .. c - 2
    <3>1. ASSUME NEW k \in S PROVE k \in 0 .. c - 2
      <4>1. k \in Nat /\ k <= c - 1 /\ k # c - 1
        BY <1>4
      <4> QED
        BY <1>3, <4>1
    <3> QED
      BY <3>1
  <2>2. IsFiniteSet(0 .. c - 2) /\ Cardinality(0 .. c - 2) = IF 0 > c - 2 THEN 0 ELSE c - 2 - 0 + 1
    <3>1. c - 2 \in Int
      BY <1>3
    <3> QED
      BY <3>1, FS_Interval
  <2>3. Cardinality(0 .. c - 2) = c - 1
    BY <1>3, <2>2
  <2>4. c <= Cardinality(0 .. c - 2)
    BY <1>2, <2>1, <2>2, FS_Subset
  <2> QED
    BY <1>3, <2>3, <2>4
<1>6. \E x \in S : \A y \in S : x >= y
  <2>1. \A y \in S : y \in Int /\ c - 1 \in Int
    BY <1>3
  <2>2. \A y \in S : c - 1 >= y
    BY <1>3, <1>4, <2>1
  <2> QED
    BY <1>5, <2>2
<1>7. Max(S) \in S /\ \A y \in S : Max(S) >= y
  BY <1>6, Zenon DEF Max
<1>8. S \subseteq Int
  OBVIOUS
<1> QED
  BY <1>7, <1>8

(* Induction up to a number, as a fact about sets.                         *)
LEMMA UpTo ==
  ASSUME NEW n \in Nat, NEW S, 0 \in S, \A k \in 0 .. n - 1 : k \in S => k + 1 \in S
  PROVE  0 .. n \subseteq S
<1>1. PICK D : D = {k \in 0 .. n : 0 .. k \subseteq S}
  OBVIOUS
<1>2. D \in SUBSET (0 .. n) /\ 0 \in D
  BY <1>1
<1>3. \A k \in D : 0 .. k \subseteq D
  BY <1>1
<1>4. PICK m : m \in D /\ \A k \in D : k <= m
  BY <1>2, <1>3, LargestWithoutGaps
<1>5. m = n
  <2> SUFFICES ASSUME m # n PROVE FALSE
    OBVIOUS
  <2>1. m \in 0 .. n - 1 /\ 0 .. m \subseteq S
    BY <1>1, <1>4
  <2>2. m + 1 \in S /\ m + 1 \in 0 .. n
    BY <2>1
  <2>3. 0 .. m + 1 \subseteq S
    BY <2>1, <2>2
  <2>4. m + 1 \in D
    BY <1>1, <2>2, <2>3
  <2>5. m + 1 <= m
    BY <1>4, <2>4
  <2> QED
    BY <2>1, <2>5
<1> QED
  BY <1>1, <1>4, <1>5

(* Two sequences, one after the other.                                     *)
LEMMA Concatenated ==
  ASSUME NEW S, NEW a \in Seq(S), NEW b \in Seq(S), NEW i, i = Len(a), NEW j, j = Len(b),
         NEW c, c = a \o b
  PROVE  /\ i \in Nat /\ j \in Nat /\ c \in Seq(S) /\ Len(c) = i + j
         /\ \A k \in 1 .. i : c[k] = a[k]
         /\ \A k \in 1 .. j : c[i + k] = b[k]
  OBVIOUS

(* Numbers, as the elements of sequences.                                  *)
Numbers == Nat

(* What the recursion of Total adds up.                                    *)
IsSum(total, s) ==
  /\ total \in [0 .. Len(s) -> Nat] /\ total[0] = 0
  /\ \A k \in 1 .. Len(s) : total[k] = total[k - 1] + s[k]

(* The numbers in a sequence.                                              *)
LEMMA NumbersOf ==
  ASSUME NEW s \in Seq(Numbers)
  PROVE  Len(s) \in Nat /\ \A k \in 1 .. Len(s) : s[k] \in Nat
<1>1. Len(s) \in Nat /\ \A k \in 1 .. Len(s) : s[k] \in Numbers
  OBVIOUS
<1> QED
  BY <1>1 DEF Numbers

(* The sums exist.                                                         *)
LEMMA SumsExist ==
  ASSUME NEW s \in Seq(Numbers)
  PROVE  IsSum(SumUpTo(s), s)
<1>1. PICK n : n = Len(s)
  OBVIOUS
<1>2. n \in Nat /\ \A k \in 1 .. n : s[k] \in Nat
  BY <1>1, NumbersOf
<1>3. PICK S : S = {j \in 0 .. n : \E f \in [0 .. j -> Nat] :
                      f[0] = 0 /\ \A k \in 1 .. j : f[k] = f[k - 1] + s[k]}
  OBVIOUS
<1>4. 0 \in S
  <2>1. PICK f : f = [k \in 0 .. 0 |-> 0]
    OBVIOUS
  <2>2. f \in [0 .. 0 -> Nat] /\ f[0] = 0 /\ \A k \in 1 .. 0 : f[k] = f[k - 1] + s[k]
    BY <2>1
  <2>3. 0 \in 0 .. n
    BY <1>2
  <2> QED
    BY <1>3, <2>2, <2>3, Zenon
<1>5. ASSUME NEW j \in 0 .. n - 1, j \in S PROVE j + 1 \in S
  <2>1. PICK f \in [0 .. j -> Nat] : f[0] = 0 /\ \A k \in 1 .. j : f[k] = f[k - 1] + s[k]
    BY <1>3, <1>5
  <2>2. PICK x : x = f[j] + s[j + 1]
    OBVIOUS
  <2>3. x \in Nat
    BY <1>2, <2>2
  <2>4. PICK g : g = [k \in 0 .. j + 1 |-> IF k <= j THEN f[k] ELSE x]
    OBVIOUS
  <2>5. g \in [0 .. j + 1 -> Nat]
    BY <2>3, <2>4
  <2>6. g[0] = 0
    BY <2>1, <2>4
  <2>7. ASSUME NEW k \in 1 .. j + 1 PROVE g[k] = g[k - 1] + s[k]
    <3>1. CASE k <= j
      BY <2>1, <2>4, <3>1
    <3>2. CASE k = j + 1
      <4>1. g[k] = x /\ g[k - 1] = f[j]
        BY <2>4, <3>2
      <4> QED
        BY <2>2, <3>2, <4>1
    <3> QED
      BY <3>1, <3>2
  <2>8. j + 1 \in 0 .. n
    BY <1>2
  <2> QED
    BY <1>3, <2>5, <2>6, <2>7, <2>8
<1>6. n \in S
  <2>1. n \in Nat
    BY <1>2
  <2>2. 0 .. n \subseteq S
    BY <1>4, <1>5, <2>1, UpTo
  <2> QED
    BY <2>1, <2>2
<1>7. PICK f \in [0 .. n -> Nat] : f[0] = 0 /\ \A k \in 1 .. n : f[k] = f[k - 1] + s[k]
  BY <1>3, <1>6
<1>8. f = [k \in 0 .. n |-> IF k = 0 THEN 0 ELSE f[k - 1] + s[k]]
  <2>1. ASSUME NEW k \in 0 .. n PROVE f[k] = IF k = 0 THEN 0 ELSE f[k - 1] + s[k]
    BY <1>7
  <2> QED
    BY <2>1
<1>9. PICK t : t = SumUpTo(s)
  OBVIOUS
<1>10. t = CHOOSE g : g = [k \in 0 .. n |-> IF k = 0 THEN 0 ELSE g[k - 1] + s[k]]
  BY <1>1, <1>9, Zenon DEF SumUpTo
<1>11. t = [k \in 0 .. n |-> IF k = 0 THEN 0 ELSE t[k - 1] + s[k]]
  BY <1>8, <1>10, Zenon
<1>12. t = f
  <2>1. PICK E : E = {k \in 0 .. n : t[k] = f[k]}
    OBVIOUS
  <2>2. 0 \in E
    BY <1>2, <1>7, <1>11, <2>1
  <2>3. ASSUME NEW k \in 0 .. n - 1, k \in E PROVE k + 1 \in E
    <3>1. t[k] = f[k] /\ k + 1 \in 1 .. n /\ k + 1 - 1 = k
      BY <1>2, <2>1, <2>3
    <3>2. t[k + 1] = t[k] + s[k + 1]
      <4>1. \A j \in 0 .. n : t[j] = IF j = 0 THEN 0 ELSE t[j - 1] + s[j]
        BY <1>11, Zenon
      <4>2. \A j \in 1 .. n : t[j] = t[j - 1] + s[j]
        BY <1>2, <4>1
      <4> QED
        BY <3>1, <4>2
    <3>3. f[k + 1] = f[k] + s[k + 1]
      BY <1>7, <3>1
    <3> QED
      BY <2>1, <3>1, <3>2, <3>3
  <2>4. 0 .. n \subseteq E
    <3>1. n \in Nat
      BY <1>2
    <3> QED
      BY <2>2, <2>3, <3>1, UpTo
  <2>5. DOMAIN t = 0 .. n /\ t = [k \in DOMAIN t |-> t[k]]
    BY <1>11
  <2> QED
    BY <2>1, <2>4, <2>5
<1> QED
  BY <1>1, <1>7, <1>9, <1>12 DEF IsSum

(* Total is such a sum, of a sequence whose length is n.                   *)
LEMMA TotalIsSum ==
  ASSUME NEW s \in Seq(Numbers), NEW n, n = Len(s), NEW f, f = SumUpTo(s)
  PROVE  /\ f \in [0 .. n -> Nat] /\ f[0] = 0 /\ Total(s) = f[n]
         /\ \A k \in 1 .. n : f[k] = f[k - 1] + s[k]
  BY SumsExist DEF IsSum, Total

(* What Total says of a sequence that is put together.                     *)
LEMMA TotalOfParts ==
  /\ Total(<<>>) = 0
  /\ \A i \in Numbers : Total(<<i>>) = i
  /\ \A s \in Seq(Numbers) : Total(s) \in Nat /\ (Total(s) = 0 => s = <<>> \/ s[Len(s)] = 0)
  /\ \A s, t \in Seq(Numbers) : Total(s \o t) = Total(s) + Total(t)
<1>1. Total(<<>>) = 0
  <2>1. PICK e, n, f : e = <<>> /\ n = 0 /\ f = SumUpTo(e)
    OBVIOUS
  <2>2. e \in Seq(Numbers) /\ n = Len(e)
    BY <2>1
  <2>3. f[0] = 0 /\ Total(e) = f[n]
    BY <2>1, <2>2, TotalIsSum
  <2> QED
    BY <2>1, <2>3
<1>2. ASSUME NEW i \in Numbers PROVE Total(<<i>>) = i
  <2>1. PICK s : s = <<i>>
    OBVIOUS
  <2>2. PICK n, f : n = 1 /\ f = SumUpTo(s)
    OBVIOUS
  <2>3. s \in Seq(Numbers) /\ n = Len(s) /\ s[1] = i
    BY <2>1, <2>2
  <2>5. /\ f[0] = 0 /\ Total(s) = f[n]
        /\ \A k \in 1 .. n : f[k] = f[k - 1] + s[k]
    BY <2>2, <2>3, TotalIsSum
  <2>6. f[1] = f[0] + s[1]
    BY <2>2, <2>5
  <2>7. i \in Nat /\ s[1] = i /\ f[0] = 0 /\ Total(s) = f[1]
    BY <2>2, <2>3, <2>5 DEF Numbers
  <2>8. Total(s) = i
    BY <2>6, <2>7
  <2> QED
    BY <2>1, <2>8
<1>3. ASSUME NEW s \in Seq(Numbers) PROVE Total(s) \in Nat /\ (Total(s) = 0 => s = <<>> \/ s[Len(s)] = 0)
  <2>1. PICK n, f : n = Len(s) /\ f = SumUpTo(s)
    OBVIOUS
  <2>2. /\ f \in [0 .. n -> Nat] /\ Total(s) = f[n]
        /\ \A k \in 1 .. n : f[k] = f[k - 1] + s[k]
    BY <2>1, TotalIsSum
  <2>3. n \in Nat /\ Total(s) \in Nat
    BY <2>1, <2>2
  <2>4. ASSUME n # 0, s[n] # 0 PROVE Total(s) # 0
    <3>1. n \in 1 .. n /\ f[n - 1] \in Nat /\ f[n] = f[n - 1] + s[n]
      BY <2>2, <2>3, <2>4
    <3>2. s[n] \in Nat \ {0}
      BY <2>1, <2>4, <3>1, NumbersOf
    <3> QED
      BY <2>2, <3>1, <3>2
  <2>5. n = 0 => s = <<>>
    BY <2>1, EmptySeq
  <2> QED
    BY <2>1, <2>3, <2>4, <2>5
<1>4. ASSUME NEW s \in Seq(Numbers), NEW t \in Seq(Numbers)
      PROVE  Total(s \o t) = Total(s) + Total(t)
  <2>1. PICK u : u = s \o t
    OBVIOUS
  <2>2. PICK n, f : n = Len(s) /\ f = SumUpTo(s)
    OBVIOUS
  <2>3. PICK m, g : m = Len(t) /\ g = SumUpTo(t)
    OBVIOUS
  <2>4. PICK l, h : l = Len(u) /\ h = SumUpTo(u)
    OBVIOUS
  <2>5. /\ f \in [0 .. n -> Nat] /\ f[0] = 0 /\ Total(s) = f[n]
        /\ \A k \in 1 .. n : f[k] = f[k - 1] + s[k]
    BY <2>2, TotalIsSum
  <2>6. /\ g \in [0 .. m -> Nat] /\ g[0] = 0 /\ Total(t) = g[m]
        /\ \A k \in 1 .. m : g[k] = g[k - 1] + t[k]
    BY <2>3, TotalIsSum
  <2>7. /\ h \in [0 .. l -> Nat] /\ h[0] = 0 /\ Total(u) = h[l]
        /\ \A k \in 1 .. l : h[k] = h[k - 1] + u[k]
    <3>1. u \in Seq(Numbers)
      BY <2>1
    <3> QED
      BY <2>4, <3>1, TotalIsSum
  <2>8. /\ \A k \in 1 .. n : u[k] = s[k]
        /\ \A k \in 1 .. m : u[n + k] = t[k]
    BY <2>1, <2>2, <2>3
  <2>9. /\ \A k \in 1 .. n : s[k] \in Nat
        /\ \A k \in 1 .. m : t[k] \in Nat
    BY <2>2, <2>3, NumbersOf
  <2>10. n \in Nat /\ m \in Nat /\ l = n + m
    BY <2>1, <2>2, <2>3, <2>4
  <2>11. PICK A : A = {k \in 0 .. n : h[k] = f[k]}
    OBVIOUS
  <2>12. 0 \in A
    BY <2>5, <2>10, <2>7, <2>11
  <2>13. ASSUME NEW k \in 0 .. n - 1, k \in A PROVE k + 1 \in A
    <3>1. k + 1 \in 1 .. n /\ k + 1 \in 1 .. l /\ k + 1 - 1 = k /\ h[k] = f[k]
      BY <2>10, <2>11, <2>13
    <3>2. f[k + 1] = f[k] + s[k + 1]
      BY <2>5, <3>1
    <3>3. h[k + 1] = h[k] + u[k + 1]
      BY <2>7, <3>1
    <3> QED
      BY <2>8, <2>9, <2>11, <3>1, <3>2, <3>3
  <2>14. 0 .. n \subseteq A
    BY <2>10, <2>12, <2>13, UpTo
  <2>15. h[n] = f[n] /\ f[n] \in Nat
    BY <2>5, <2>10, <2>11, <2>14
  <2>16. PICK B : B = {k \in 0 .. m : h[n + k] = f[n] + g[k]}
    OBVIOUS
  <2>17. 0 \in B
    BY <2>6, <2>10, <2>15, <2>16
  <2>18. ASSUME NEW k \in 0 .. m - 1, k \in B PROVE k + 1 \in B
    <3>1. /\ k + 1 \in 1 .. m /\ n + (k + 1) \in 1 .. l /\ k + 1 - 1 = k
          /\ n + (k + 1) - 1 = n + k /\ h[n + k] = f[n] + g[k]
      BY <2>10, <2>16, <2>18
    <3>2. g[k + 1] = g[k] + t[k + 1]
      BY <2>6, <3>1
    <3>3. h[n + (k + 1)] = h[n + k] + u[n + (k + 1)]
      <4>1. PICK i : i = n + (k + 1)
        OBVIOUS
      <4>2. i \in 1 .. l /\ i - 1 = n + k
        BY <2>10, <3>1, <4>1
      <4>3. h[i] = h[i - 1] + u[i]
        BY <2>7, <4>2
      <4> QED
        BY <4>1, <4>2, <4>3
    <3>4. u[n + (k + 1)] = t[k + 1] /\ t[k + 1] \in Nat /\ g[k] \in Nat
      <4>1. u[n + (k + 1)] = t[k + 1] /\ t[k + 1] \in Nat
        BY <2>8, <2>9, <3>1
      <4> QED
        BY <2>6, <2>10, <4>1
    <3>5. h[n + (k + 1)] = f[n] + g[k + 1]
      BY <2>15, <3>1, <3>2, <3>3, <3>4
    <3> QED
      BY <2>16, <3>1, <3>5
  <2>19. 0 .. m \subseteq B
    BY <2>10, <2>17, <2>18, UpTo
  <2>20. h[l] = f[n] + g[m]
    <3>1. m \in B
      BY <2>10, <2>19
    <3> QED
      BY <2>10, <2>16, <3>1
  <2> QED
    BY <2>1, <2>5, <2>6, <2>7, <2>20
<1> QED
  BY <1>1, <1>2, <1>3, <1>4
(* Smaller numbers have a smaller sum.                                     *)
LEMMA TotalIsMonotone ==
  ASSUME NEW s \in Seq(Numbers), NEW t \in Seq(Numbers), Len(s) = Len(t),
         \A k \in 1 .. Len(s) : s[k] <= t[k]
  PROVE  Total(s) <= Total(t)
<1>1. PICK n, f, g : n = Len(s) /\ f = SumUpTo(s) /\ g = SumUpTo(t)
  OBVIOUS
<1>2. /\ f \in [0 .. n -> Nat] /\ f[0] = 0 /\ Total(s) = f[n]
      /\ \A k \in 1 .. n : f[k] = f[k - 1] + s[k]
  BY <1>1, TotalIsSum
<1>3. /\ g \in [0 .. n -> Nat] /\ g[0] = 0 /\ Total(t) = g[n]
      /\ \A k \in 1 .. n : g[k] = g[k - 1] + t[k]
  BY <1>1, TotalIsSum
<1>4. n \in Nat /\ \A k \in 1 .. n : s[k] \in Nat /\ t[k] \in Nat /\ s[k] <= t[k]
  BY <1>1, NumbersOf
<1>5. PICK A : A = {k \in 0 .. n : f[k] <= g[k]}
  OBVIOUS
<1>6. 0 \in A
  BY <1>2, <1>3, <1>4, <1>5
<1>7. ASSUME NEW k \in 0 .. n - 1, k \in A PROVE k + 1 \in A
  <2>1. k + 1 \in 1 .. n /\ k + 1 \in 0 .. n /\ k \in 0 .. n /\ k + 1 - 1 = k /\ f[k] <= g[k]
    BY <1>4, <1>5, <1>7
  <2>2. f[k + 1] = f[k] + s[k + 1] /\ g[k + 1] = g[k] + t[k + 1]
    BY <1>2, <1>3, <2>1
  <2>3. f[k] \in Nat /\ g[k] \in Nat
    BY <1>2, <1>3, <2>1
  <2> QED
    BY <1>4, <1>5, <2>1, <2>2, <2>3
<1>8. n \in A
  <2>1. n \in Nat
    BY <1>4
  <2>2. 0 .. n \subseteq A
    BY <1>6, <1>7, <2>1, UpTo
  <2> QED
    BY <2>1, <2>2
<1> QED
  BY <1>2, <1>3, <1>5, <1>8

(* The numbers that a function has for the messages of a sequence, and the *)
(* two functions that are added up.                                        *)
Values(s, f) == [k \in DOMAIN s |-> f[s[k]]]

Sizes      == [m \in Logged |-> m.size]
WholeSizes == [m \in Logged |-> IF m.whole THEN m.size ELSE 0]

(* The functions have numbers for messages, of which the second is the     *)
(* smaller.                                                                *)
LEMMA SizesOf ==
  /\ Sizes \in [Logged -> Numbers] /\ WholeSizes \in [Logged -> Numbers]
  /\ \A m \in Logged : /\ m.size \in Nat \ {0} /\ Sizes[m] = m.size
                       /\ WholeSizes[m] = IF m.whole THEN m.size ELSE 0
<1>1. \A m \in Logged : m.size \in Nat \ {0}
  BY DEF Logged
<1> QED
  BY <1>1 DEF Sizes, WholeSizes, Numbers

(* The sizes are totals of such numbers.                                   *)
LEMMA SizesAreTotals ==
  ASSUME NEW s \in Seq(Logged)
  PROVE  SizeOf(s) = Total(Values(s, Sizes)) /\ WholeSize(s) = Total(Values(s, WholeSizes))
<1>1. \A k \in DOMAIN s : s[k] \in Logged
  OBVIOUS
<1>2. Values(s, Sizes) = [k \in DOMAIN s |-> s[k].size]
  BY <1>1, SizesOf DEF Values
<1>3. Values(s, WholeSizes) = [k \in DOMAIN s |-> IF s[k].whole THEN s[k].size ELSE 0]
  BY <1>1, SizesOf DEF Values
<1> QED
  BY <1>2, <1>3, Zenon DEF SizeOf, WholeSize

(* The numbers for a sequence that is put together.                        *)
LEMMA ValuesOfParts ==
  ASSUME NEW f \in [Logged -> Numbers]
  PROVE  /\ Values(<<>>, f) = <<>>
         /\ \A m \in Logged : Values(<<m>>, f) = <<f[m]>>
         /\ \A s \in Seq(Logged) : Values(s, f) \in Seq(Numbers) /\ Len(Values(s, f)) = Len(s)
         /\ \A s, t \in Seq(Logged) : Values(s \o t, f) = Values(s, f) \o Values(t, f)
<1>1. Values(<<>>, f) = <<>>
  BY DEF Values
<1>2. \A m \in Logged : Values(<<m>>, f) = <<f[m]>>
  BY DEF Values
<1>3. ASSUME NEW s \in Seq(Logged)
      PROVE  Values(s, f) \in Seq(Numbers) /\ Len(Values(s, f)) = Len(s)
  <2>1. PICK n, x : n = Len(s) /\ x = Values(s, f)
    OBVIOUS
  <2>2. n \in Nat /\ x = [k \in 1 .. n |-> f[s[k]]]
    BY <2>1 DEF Values
  <2>3. \A k \in 1 .. n : s[k] \in Logged
    BY <2>1
  <2>4. \A k \in 1 .. n : f[s[k]] \in Numbers
    BY <2>3
  <2>5. x \in [1 .. n -> Numbers]
    BY <2>2, <2>4
  <2>6. x \in Seq(Numbers) /\ Len(x) = n
    BY <2>2, <2>5
  <2> QED
    BY <2>1, <2>6
<1>4. ASSUME NEW s \in Seq(Logged), NEW t \in Seq(Logged)
      PROVE  Values(s \o t, f) = Values(s, f) \o Values(t, f)
  <2>1. PICK n, m, u : n = Len(s) /\ m = Len(t) /\ u = s \o t
    OBVIOUS
  <2>2. /\ n \in Nat /\ m \in Nat /\ u \in Seq(Logged) /\ Len(u) = n + m
        /\ \A k \in 1 .. n : u[k] = s[k]
        /\ \A k \in 1 .. m : u[n + k] = t[k]
    BY <2>1, Concatenated
  <2>3. PICK v, x, y : v = Values(s, f) /\ x = Values(t, f) /\ y = Values(u, f)
    OBVIOUS
  <2>4. /\ v \in Seq(Numbers) /\ Len(v) = n /\ x \in Seq(Numbers) /\ Len(x) = m
        /\ y \in Seq(Numbers) /\ Len(y) = n + m
    BY <1>3, <2>1, <2>2, <2>3
  <2>5. /\ \A k \in 1 .. n : v[k] = f[s[k]]
        /\ \A k \in 1 .. m : x[k] = f[t[k]]
        /\ \A k \in 1 .. n + m : y[k] = f[u[k]]
    BY <2>1, <2>2, <2>3 DEF Values
  <2>6. PICK z : z = v \o x
    OBVIOUS
  <2>7. /\ z \in Seq(Numbers) /\ Len(z) = n + m
        /\ \A k \in 1 .. n : z[k] = v[k]
        /\ \A k \in 1 .. m : z[n + k] = x[k]
    <3>1. v \in Seq(Numbers) /\ x \in Seq(Numbers) /\ n = Len(v) /\ m = Len(x)
      BY <2>4
    <3> QED
      BY <2>6, <3>1, Concatenated
  <2>8. ASSUME NEW k \in 1 .. n + m PROVE y[k] = z[k]
    <3>1. y[k] = f[u[k]]
      BY <2>5
    <3>2. CASE k <= n
      <4>1. k \in 1 .. n
        BY <2>2, <3>2
      <4>2. z[k] = v[k] /\ v[k] = f[s[k]] /\ u[k] = s[k]
        BY <2>2, <2>5, <2>7, <4>1
      <4> QED
        BY <3>1, <4>2
    <3>3. CASE ~(k <= n)
      <4>1. PICK j : j = k - n
        OBVIOUS
      <4>2. j \in 1 .. m /\ k = n + j
        BY <2>2, <3>3, <4>1
      <4>3. z[n + j] = x[j] /\ x[j] = f[t[j]] /\ u[n + j] = t[j]
        BY <2>2, <2>5, <2>7, <4>2
      <4> QED
        BY <3>1, <4>2, <4>3
    <3> QED
      BY <3>2, <3>3
  <2>9. y = z
    BY <2>4, <2>7, <2>8
  <2> QED
    BY <2>1, <2>3, <2>6, <2>9
<1> QED
  BY <1>1, <1>2, <1>3, <1>4

(* What the sizes are of a sequence that is put together.                  *)
LEMMA SizeOfParts ==
  /\ SizeOf(<<>>) = 0 /\ WholeSize(<<>>) = 0
  /\ \A m \in Logged : WholeSize(<<m>>) = IF m.whole THEN m.size ELSE 0
  /\ \A s \in Seq(Logged) : /\ SizeOf(s) \in Nat /\ WholeSize(s) \in Nat
                            /\ WholeSize(s) <= SizeOf(s) /\ (SizeOf(s) = 0 => s = <<>>)
  /\ \A s, t \in Seq(Logged) : WholeSize(s \o t) = WholeSize(s) + WholeSize(t)
<1>1. SizeOf(<<>>) = 0 /\ WholeSize(<<>>) = 0
  <2>1. PICK e : e = <<>>
    OBVIOUS
  <2>2. e \in Seq(Logged) /\ Values(e, Sizes) = <<>> /\ Values(e, WholeSizes) = <<>>
    BY <2>1, SizesOf, ValuesOfParts
  <2>3. SizeOf(e) = 0 /\ WholeSize(e) = 0
    BY <2>2, SizesAreTotals, TotalOfParts
  <2> QED
    BY <2>1, <2>3
<1>2. ASSUME NEW m \in Logged PROVE WholeSize(<<m>>) = IF m.whole THEN m.size ELSE 0
  <2>1. PICK s, i : s = <<m>> /\ i = WholeSizes[m]
    OBVIOUS
  <2>2. s \in Seq(Logged) /\ Values(s, WholeSizes) = <<i>> /\ i \in Numbers
    BY <2>1, SizesOf, ValuesOfParts
  <2>3. WholeSize(s) = i
    BY <2>2, SizesAreTotals, TotalOfParts
  <2> QED
    BY <2>1, <2>3, SizesOf
<1>3. ASSUME NEW s \in Seq(Logged)
      PROVE  /\ SizeOf(s) \in Nat /\ WholeSize(s) \in Nat
             /\ WholeSize(s) <= SizeOf(s) /\ (SizeOf(s) = 0 => s = <<>>)
  <2>1. PICK x, y : x = Values(s, Sizes) /\ y = Values(s, WholeSizes)
    OBVIOUS
  <2>2. /\ x \in Seq(Numbers) /\ y \in Seq(Numbers) /\ Len(x) = Len(s) /\ Len(y) = Len(s)
        /\ SizeOf(s) = Total(x) /\ WholeSize(s) = Total(y)
    BY <2>1, SizesOf, ValuesOfParts, SizesAreTotals
  <2>3. \A k \in 1 .. Len(s) : y[k] <= x[k] /\ x[k] # 0
    <3>1. \A k \in 1 .. Len(s) : s[k] \in Logged /\ x[k] = Sizes[s[k]] /\ y[k] = WholeSizes[s[k]]
      BY <2>1 DEF Values
    <3> QED
      BY <3>1, SizesOf
  <2>4. Total(y) <= Total(x)
    BY <2>2, <2>3, TotalIsMonotone
  <2>5. /\ Total(x) \in Nat /\ Total(y) \in Nat
        /\ (Total(x) = 0 => x = <<>> \/ x[Len(x)] = 0)
    BY <2>2, TotalOfParts
  <2>6. ASSUME Total(x) = 0 PROVE s = <<>>
    <3>1. PICK n : n = Len(s)
      OBVIOUS
    <3>2. n \in Nat /\ (n = 0 => s = <<>>)
      BY <3>1, EmptySeq
    <3>3. n = 0
      <4> SUFFICES ASSUME n # 0 PROVE FALSE
        OBVIOUS
      <4>1. n \in 1 .. n /\ x[n] # 0 /\ x # <<>>
        BY <2>2, <2>3, <3>1, <3>2
      <4> QED
        BY <2>2, <2>5, <2>6, <3>1, <4>1
    <3> QED
      BY <3>2, <3>3
  <2> QED
    BY <2>2, <2>4, <2>5, <2>6
<1>4. ASSUME NEW s \in Seq(Logged), NEW t \in Seq(Logged)
      PROVE  WholeSize(s \o t) = WholeSize(s) + WholeSize(t)
  <2>1. PICK u, f : u = s \o t /\ f = WholeSizes
    OBVIOUS
  <2>2. f \in [Logged -> Numbers] /\ u \in Seq(Logged)
    BY <2>1, SizesOf
  <2>3. PICK x, y : x = Values(s, f) /\ y = Values(t, f)
    OBVIOUS
  <2>4. x \in Seq(Numbers) /\ y \in Seq(Numbers) /\ Values(u, f) = x \o y
    BY <2>1, <2>2, <2>3, ValuesOfParts
  <2>5. Total(x \o y) = Total(x) + Total(y)
    BY <2>4, TotalOfParts
  <2>6. WholeSize(u) = Total(x \o y) /\ WholeSize(s) = Total(x) /\ WholeSize(t) = Total(y)
    BY <2>1, <2>2, <2>3, <2>4, SizesAreTotals
  <2> QED
    BY <2>1, <2>5, <2>6
<1> QED
  BY <1>1, <1>2, <1>3, <1>4
----------------------------------------------------------------------------
(* What a write that stops leaves. *)

(* It begins as the messages that were to be written do, and all but its   *)
(* last one are those.                                                     *)
LEMMA PartIs ==
  ASSUME NEW t \in Seq(Logged), NEW p \in Parts(t)
  PROVE  /\ p \in Seq(Logged) /\ Len(p) <= Len(t) /\ \A k \in DOMAIN p : p[k].id = t[k].id
         /\ \E first, rest \in Seq(Logged) :
              t = first \o rest /\ rest # <<>> /\ WholeSize(p) = WholeSize(first)
<1>1. PICK k \in 0 .. Len(t) - 1 :
        p \in {SubSeq(t, 1, k)} \cup
              {Append(SubSeq(t, 1, k), [t[k + 1] EXCEPT !.size = c, !.whole = FALSE]) :
                 c \in 1 .. t[k + 1].size - 1}
  BY Zenon DEF Parts
<1>2. PICK n, first, rest : /\ n = Len(t) /\ first = SubSeq(t, 1, k)
                            /\ rest = SubSeq(t, k + 1, n)
  OBVIOUS
<1>3. n \in Nat /\ k \in Nat /\ k < n /\ k + 1 \in 1 .. n
  BY <1>2
<1>4. /\ first \in Seq(Logged) /\ Len(first) = k /\ \A j \in 1 .. k : first[j] = t[j]
      /\ rest \in Seq(Logged) /\ Len(rest) = n - k
      /\ \A j \in 1 .. n - k : rest[j] = t[k + j]
  <2>1. /\ first \in Seq(Logged) /\ Len(first) = k /\ \A j \in 1 .. k : first[j] = t[j]
    BY <1>2, <1>3
  <2>2. rest \in Seq(Logged) /\ Len(rest) = n - k
    BY <1>2, <1>3
  <2>3. ASSUME NEW j \in 1 .. n - k PROVE rest[j] = t[k + j]
    <3>1. rest[j] = t[(k + 1) + j - 1] /\ (k + 1) + j - 1 = k + j
      BY <1>2, <1>3
    <3> QED
      BY <3>1
  <2> QED
    BY <2>1, <2>2, <2>3
<1>5. t = first \o rest /\ rest # <<>>
  <2>1. PICK u : u = first \o rest
    OBVIOUS
  <2>2. /\ u \in Seq(Logged) /\ Len(u) = k + (n - k)
        /\ \A j \in 1 .. k : u[j] = first[j]
        /\ \A j \in 1 .. n - k : u[k + j] = rest[j]
    <3>1. PICK j : j = n - k
      OBVIOUS
    <3>2. first \in Seq(Logged) /\ rest \in Seq(Logged) /\ k = Len(first) /\ j = Len(rest)
      BY <1>4, <3>1
    <3>3. /\ u \in Seq(Logged) /\ Len(u) = k + j
          /\ \A i \in 1 .. k : u[i] = first[i]
          /\ \A i \in 1 .. j : u[k + i] = rest[i]
      BY <2>1, <3>2, Concatenated
    <3> QED
      BY <3>1, <3>3
  <2>3. ASSUME NEW j \in 1 .. n PROVE u[j] = t[j]
    <3>1. CASE j <= k
      BY <1>3, <1>4, <2>2, <3>1
    <3>2. CASE ~(j <= k)
      <4>1. PICK i : i = j - k
        OBVIOUS
      <4>2. i \in 1 .. n - k /\ j = k + i
        BY <1>3, <3>2, <4>1
      <4>3. u[k + i] = rest[i] /\ rest[i] = t[k + i]
        BY <1>4, <2>2, <4>2
      <4> QED
        BY <4>2, <4>3
    <3> QED
      BY <3>1, <3>2
  <2>4. u \in Seq(Logged) /\ Len(u) = n /\ n = Len(t)
    BY <1>2, <1>3, <2>2
  <2>5. u = t
    BY <2>3, <2>4
  <2>6. rest # <<>>
    BY <1>3, <1>4
  <2> QED
    BY <2>1, <2>5, <2>6
<1>6. CASE p = first
  <2>1. Len(p) <= Len(t) /\ DOMAIN p = 1 .. k
    BY <1>2, <1>3, <1>4, <1>6
  <2>2. \A j \in DOMAIN p : p[j].id = t[j].id
    BY <1>4, <1>6, <2>1
  <2> QED
    BY <1>4, <1>5, <1>6, <2>1, <2>2
<1>7. CASE p # first
  <2>1. PICK m, c : m = t[k + 1] /\ c \in 1 .. m.size - 1
                    /\ p = Append(first, [m EXCEPT !.size = c, !.whole = FALSE])
    BY <1>1, <1>2, <1>7
  <2>2. m \in Logged /\ c \in Nat \ {0}
    <3>1. m \in Logged
      BY <1>2, <1>3, <2>1
    <3>2. m.size \in Nat
      BY <3>1 DEF Logged
    <3> QED
      BY <2>1, <3>1, <3>2
  <2>3. PICK x : x = [m EXCEPT !.size = c, !.whole = FALSE]
    OBVIOUS
  <2>4. x \in Logged /\ x.id = m.id /\ ~x.whole
    BY <2>2, <2>3 DEF Logged
  <2>5. p = first \o <<x>> /\ <<x>> \in Seq(Logged)
    BY <1>4, <2>1, <2>3, <2>4
  <2>6. p \in Seq(Logged) /\ Len(p) = k + 1
    BY <1>4, <2>5
  <2>7. ASSUME NEW j \in DOMAIN p PROVE p[j].id = t[j].id
    <3>1. CASE j <= k
      BY <1>3, <1>4, <2>5, <2>6, <3>1
    <3>2. CASE j > k
      <4>1. j = k + 1
        BY <1>3, <2>6, <3>2
      <4>2. p[k + 1] = x
        BY <1>3, <1>4, <2>5
      <4> QED
        BY <2>1, <2>4, <4>1, <4>2
    <3> QED
      BY <1>3, <2>6, <3>1, <3>2
  <2>8. WholeSize(p) = WholeSize(first)
    <3>1. PICK y : y = <<x>>
      OBVIOUS
    <3>2. y \in Seq(Logged) /\ WholeSize(y) = 0 /\ p = first \o y
      BY <2>4, <2>5, <3>1, SizeOfParts
    <3>3. WholeSize(first \o y) = WholeSize(first) + WholeSize(y)
      BY <1>4, <3>2, SizeOfParts
    <3>4. WholeSize(first) \in Nat
      BY <1>4, SizeOfParts
    <3> QED
      BY <3>2, <3>3, <3>4
  <2>9. Len(p) <= Len(t)
    BY <1>2, <1>3, <2>6
  <2> QED
    BY <1>4, <1>5, <2>6, <2>7, <2>8, <2>9
<1> QED
  BY <1>6, <1>7

(* Its messages are as much in order as those were.                        *)
LEMMA PartInOrder ==
  ASSUME NEW t \in Seq(Logged), NEW p \in Parts(t)
  PROVE  /\ p \in Seq(Logged) /\ Ids(p) \subseteq Ids(t) /\ (Increasing(t) => Increasing(p))
         /\ Ids(t) \subseteq Ids(p) \cup {m.id : m \in Range(t) \ Range(p)}
<1>1. p \in Seq(Logged) /\ Len(p) <= Len(t) /\ \A k \in DOMAIN p : p[k].id = t[k].id
  BY PartIs
<1>2. DOMAIN p = 1 .. Len(p) /\ DOMAIN t = 1 .. Len(t) /\ Len(p) \in Nat /\ Len(t) \in Nat
  BY <1>1
<1>3. DOMAIN p \subseteq DOMAIN t
  BY <1>1, <1>2
<1>4. Ids(p) \subseteq Ids(t)
  BY <1>1, <1>3 DEF Ids
<1>5. ASSUME Increasing(t) PROVE Increasing(p)
  BY <1>1, <1>3, <1>5 DEF Increasing
<1>6. ASSUME NEW id \in Ids(t) PROVE id \in Ids(p) \cup {m.id : m \in Range(t) \ Range(p)}
  <2>1. PICK k \in DOMAIN t : id = t[k].id
    BY DEF Ids
  <2>2. t[k] \in Range(t)
    BY DEF Range
  <2>3. CASE t[k] \in Range(p)
    <3>1. PICK j \in DOMAIN p : p[j] = t[k]
      BY <2>3 DEF Range
    <3> QED
      BY <2>1, <3>1 DEF Ids
  <2>4. CASE t[k] \notin Range(p)
    BY <2>1, <2>2, <2>4
  <2> QED
    BY <2>3, <2>4
<1> QED
  BY <1>1, <1>4, <1>5, <1>6
----------------------------------------------------------------------------
(* The order of the files, apart from what the sink is doing: st[n] is in  *)
(* file n, and tail is not in a file yet.                                  *)

Files == 0 .. MaxFiles

Ordered(st, tail) ==
  /\ Increasing(tail)
  /\ \A n \in Files :
       /\ Increasing(st[n]) /\ Before(st[n], tail)
       /\ \A m \in 0 .. n - 1 : Before(st[n], st[m])

HeldIn(st, tail) == (UNION {Ids(st[n]) : n \in Files}) \cup Ids(tail)

View(h) == [n \in Files |-> Stored(h, n)]

(* What is held is what some file or the tail holds.                       *)
LEMMA HeldMembers ==
  ASSUME NEW st, NEW tail, NEW id
  PROVE  id \in HeldIn(st, tail) <=> (\E n \in Files : id \in Ids(st[n])) \/ id \in Ids(tail)
  BY DEF HeldIn

(* InOrder and Held are about the view of a helper.                        *)
LEMMA OrderIsOfTheView ==
  ASSUME NEW h, IsHelper(h), NEW waiting \in Seq(Logged)
  PROVE  /\ View(h) \in [Files -> Seq(Logged)] /\ h.buffer \in Seq(Logged)
         /\ InOrder(h, waiting) <=> Ordered(View(h), h.buffer \o waiting)
         /\ Held(h, waiting) = HeldIn(View(h), h.buffer \o waiting)
<1>1. \A n \in Files : Stored(h, n) \in Seq(Logged) /\ View(h)[n] = Stored(h, n)
  BY DEF View, Stored, Exists, IsHelper, IsRecord
<1>2. h.buffer \in Seq(Logged)
  BY DEF IsHelper, IsRecord
<1>3. View(h) \in [Files -> Seq(Logged)]
  BY <1>1 DEF View
<1>4. InOrder(h, waiting) <=> Ordered(View(h), h.buffer \o waiting)
  <2>1. \A n \in Files : 0 .. n - 1 \subseteq Files
    BY RotatingFileAssumption DEF Files
  <2> QED
    BY <1>1, <2>1 DEF InOrder, Ordered, Files
<1>5. Held(h, waiting) = HeldIn(View(h), h.buffer \o waiting)
  <2>1. Ids(h.buffer \o waiting) = Ids(h.buffer) \cup Ids(waiting)
    BY <1>2, IdsOfParts
  <2>2. {Ids(Stored(h, n)) : n \in 0 .. MaxFiles} = {Ids(View(h)[n]) : n \in Files}
    BY <1>1 DEF Files
  <2> QED
    BY <2>1, <2>2 DEF Held, HeldIn
<1> QED
  BY <1>2, <1>3, <1>4, <1>5

(* Dropping whole files, or the tail, leaves the others in order.          *)
LEMMA OrderedWithout ==
  ASSUME NEW st, NEW tail, Ordered(st, tail), NEW sub, NEW rest \in {tail, <<>>},
         \A n \in Files : sub[n] \in {st[n], <<>>}
  PROVE  Ordered(sub, rest)
<1>1. \A s : Before(<<>>, s) /\ Before(s, <<>>)
  BY DEF Before
<1>2. Increasing(rest)
  BY IncreasingParts DEF Ordered
<1>3. ASSUME NEW n \in Files
      PROVE  /\ Increasing(sub[n]) /\ Before(sub[n], rest)
             /\ \A m \in 0 .. n - 1 : Before(sub[n], sub[m])
  <2>1. sub[n] \in {st[n], <<>>} /\ 0 .. n - 1 \subseteq Files
    BY RotatingFileAssumption DEF Files
  <2>2. Increasing(st[n]) /\ Before(st[n], tail) /\ \A m \in 0 .. n - 1 : Before(st[n], st[m])
    BY DEF Ordered
  <2>3. Increasing(sub[n]) /\ Before(sub[n], rest)
    BY <1>1, <2>1, <2>2, IncreasingParts
  <2>4. ASSUME NEW m \in 0 .. n - 1 PROVE Before(sub[n], sub[m])
    <3>1. sub[m] \in {st[m], <<>>} /\ Before(st[n], st[m])
      BY <2>1, <2>2
    <3> QED
      BY <1>1, <2>1, <3>1
  <2> QED
    BY <2>3, <2>4
<1> QED
  BY <1>2, <1>3 DEF Ordered

(* The buffer may be moved to the end of the log file.                     *)
LEMMA OrderedFlushed ==
  ASSUME NEW st \in [Files -> Seq(Logged)], NEW b \in Seq(Logged), NEW waiting \in Seq(Logged),
         Ordered(st, b \o waiting), NEW new \in [Files -> Seq(Logged)],
         \A n \in Files : new[n] = IF n = 0 THEN st[n] \o b ELSE st[n]
  PROVE  Ordered(new, waiting) /\ HeldIn(new, waiting) = HeldIn(st, b \o waiting)
<1>1. 0 \in Files
  BY RotatingFileAssumption DEF Files
<1>2. Ids(b \o waiting) = Ids(b) \cup Ids(waiting) /\ Ids(new[0]) = Ids(st[0]) \cup Ids(b)
  BY <1>1, IdsOfParts
<1>3. Increasing(b) /\ Increasing(waiting) /\ Before(b, waiting)
  BY IncreasingParts DEF Ordered
<1>4. \A n \in Files : Before(st[n], b) /\ Before(st[n], waiting)
  BY <1>2, BeforeIsOfIds DEF Ordered
<1>5. ASSUME NEW n \in Files
      PROVE  /\ Increasing(new[n]) /\ Before(new[n], waiting)
             /\ \A m \in 0 .. n - 1 : Before(new[n], new[m])
  <2>1. CASE n = 0
    <3>1. Increasing(new[0])
      <4>1. new[0] = st[0] \o b /\ st[0] \in Seq(Logged) /\ Increasing(st[0]) /\ Before(st[0], b)
        BY <1>1, <1>4 DEF Ordered
      <4> QED
        BY <1>3, <4>1, IncreasingParts
    <3>2. Before(new[0], waiting)
      BY <1>1, <1>2, <1>3, <1>4, BeforeIsOfIds
    <3> QED
      BY <2>1, <3>1, <3>2
  <2>2. CASE n # 0
    <3>1. new[n] = st[n]
      BY <2>2
    <3>2. ASSUME NEW m \in 0 .. n - 1 PROVE Before(new[n], new[m])
      <4>1. m \in Files /\ Before(st[n], st[m])
        BY RotatingFileAssumption DEF Files, Ordered
      <4>2. CASE m = 0
        BY <1>2, <1>4, <3>1, <4>1, <4>2, BeforeIsOfIds
      <4>3. CASE m # 0
        BY <3>1, <4>1, <4>3
      <4> QED
        BY <4>2, <4>3
    <3> QED
      BY <1>4, <3>1, <3>2 DEF Ordered
  <2> QED
    BY <2>1, <2>2
<1>6. ASSUME NEW id PROVE id \in HeldIn(new, waiting) <=> id \in HeldIn(st, b \o waiting)
  <2>1. (\E n \in Files : id \in Ids(new[n])) <=>
          (\E n \in Files : id \in Ids(st[n])) \/ id \in Ids(b)
    BY <1>1, <1>2
  <2> QED
    BY <1>2, <2>1, HeldMembers
<1> QED
  BY <1>3, <1>5, <1>6 DEF Ordered

(* A file may take the next name, if that is free.                         *)
LEMMA OrderedShifted ==
  ASSUME NEW st \in [Files -> Seq(Logged)], NEW tail \in Seq(Logged), Ordered(st, tail),
         NEW k \in Files, k > 0, st[k] = <<>>, NEW new \in [Files -> Seq(Logged)],
         \A n \in Files : new[n] = IF n = k THEN st[k - 1]
                                   ELSE IF n = k - 1 THEN <<>> ELSE st[n]
  PROVE  Ordered(new, tail) /\ HeldIn(new, tail) = HeldIn(st, tail)
<1>1. k - 1 \in Files
  BY RotatingFileAssumption DEF Files
<1>2. \A s : Before(<<>>, s) /\ Before(s, <<>>)
  BY DEF Before
<1>3. ASSUME NEW n \in Files
      PROVE  /\ Increasing(new[n]) /\ Before(new[n], tail)
             /\ \A m \in 0 .. n - 1 : Before(new[n], new[m])
  <2>1. 0 .. n - 1 \subseteq Files /\ n \in Nat /\ k \in Nat
    BY RotatingFileAssumption DEF Files
  <2>2. \A i \in Files : /\ Increasing(st[i]) /\ Before(st[i], tail)
                         /\ \A j \in 0 .. i - 1 : Before(st[i], st[j])
    BY DEF Ordered
  <2>3. CASE n = k
    <3>1. new[n] = st[k - 1]
      BY <2>3
    <3>2. ASSUME NEW m \in 0 .. n - 1 PROVE Before(new[n], new[m])
      <4>1. CASE m = k - 1
        BY <1>1, <1>2, <2>1, <4>1
      <4>2. CASE m # k - 1
        <5>1. m \in 0 .. (k - 1) - 1 /\ new[m] = st[m]
          BY <2>1, <2>3, <4>2
        <5> QED
          BY <1>1, <2>2, <3>1, <5>1
      <4> QED
        BY <4>1, <4>2
    <3> QED
      BY <1>1, <2>2, <3>1, <3>2
  <2>4. CASE n = k - 1
    BY <1>2, <2>1, <2>4, IncreasingParts
  <2>5. CASE n # k /\ n # k - 1
    <3>1. new[n] = st[n]
      BY <2>5
    <3>2. ASSUME NEW m \in 0 .. n - 1 PROVE Before(new[n], new[m])
      <4>1. CASE m = k
        <5>1. new[m] = st[k - 1] /\ k - 1 \in 0 .. n - 1
          BY <2>1, <4>1
        <5> QED
          BY <2>2, <3>1, <5>1
      <4>2. CASE m = k - 1
        BY <1>1, <1>2, <2>1, <4>2
      <4>3. CASE m # k /\ m # k - 1
        BY <2>1, <2>2, <3>1, <4>3
      <4> QED
        BY <4>1, <4>2, <4>3
    <3> QED
      BY <2>2, <3>1, <3>2
  <2> QED
    BY <2>3, <2>4, <2>5
<1>4. ASSUME NEW id PROVE id \in HeldIn(new, tail) <=> id \in HeldIn(st, tail)
  <2>1. (\E n \in Files : id \in Ids(new[n])) => \E n \in Files : id \in Ids(st[n])
    BY <1>1, IdsOfParts
  <2>2. (\E n \in Files : id \in Ids(st[n])) => \E n \in Files : id \in Ids(new[n])
    <3>1. ASSUME NEW n \in Files, id \in Ids(st[n]) PROVE \E i \in Files : id \in Ids(new[i])
      <4>1. CASE n = k - 1
        BY <3>1, <4>1
      <4>2. CASE n # k - 1
        <5>1. n # k
          BY <3>1, IdsOfParts
        <5> QED
          BY <3>1, <4>2, <5>1
      <4> QED
        BY <4>1, <4>2
    <3> QED
      BY <3>1
  <2> QED
    BY <2>1, <2>2, HeldMembers
<1> QED
  BY <1>3, <1>4 DEF Ordered

(* A message that is new may follow.                                       *)
LEMMA OrderedAppended ==
  ASSUME NEW st, NEW tail \in Seq(Logged), Ordered(st, tail),
         NEW m \in Logged, \A id \in HeldIn(st, tail) : id < m.id
  PROVE  /\ Ordered(st, tail \o <<m>>)
         /\ HeldIn(st, tail \o <<m>>) = HeldIn(st, tail) \cup {m.id}
<1>1. <<m>> \in Seq(Logged) /\ Ids(<<m>>) = {m.id} /\ Ids(tail \o <<m>>) = Ids(tail) \cup {m.id}
  <2>1. <<m>> \in Seq(Logged)
    OBVIOUS
  <2>2. Ids(<<m>>) = {m.id}
    BY IdsOfParts
  <2>3. Ids(tail \o <<m>>) = Ids(tail) \cup Ids(<<m>>)
    BY <2>1, IdsOfParts
  <2> QED
    BY <2>1, <2>2, <2>3
<1>2. Increasing(tail) /\ Before(tail, <<m>>)
  BY <1>1, HeldMembers, BeforeIsOfIds DEF Ordered
<1>3. Increasing(tail \o <<m>>)
  BY <1>1, <1>2, IncreasingParts
<1>4. ASSUME NEW n \in Files PROVE Before(st[n], tail \o <<m>>)
  <2>1. \A i \in Ids(st[n]) : i < m.id
    BY HeldMembers
  <2>2. \A i \in Ids(st[n]), j \in Ids(tail) : i < j
    BY BeforeIsOfIds DEF Ordered
  <2>3. \A i \in Ids(st[n]), j \in Ids(tail \o <<m>>) : i < j
    BY <1>1, <2>1, <2>2
  <2> QED
    BY <2>3, BeforeIsOfIds
<1>5. HeldIn(st, tail \o <<m>>) = HeldIn(st, tail) \cup {m.id}
  BY <1>1 DEF HeldIn
<1>6. \A n \in Files : Increasing(st[n]) /\ \A i \in 0 .. n - 1 : Before(st[n], st[i])
  BY DEF Ordered
<1>7. Ordered(st, tail \o <<m>>)
  BY <1>3, <1>4, <1>6, Zenon DEF Ordered
<1> QED
  BY <1>5, <1>7
----------------------------------------------------------------------------
(* The rotating sink. *)

(* Its helper only ever opens the log file.                                *)
LogFileInv(h) ==
  /\ IsHelper(h) /\ DOMAIN h.dir \subseteq Files /\ h.filename = 0 /\ ~h.unlinked

(* A rotation works on a closed file, and frees the name that it goes on   *)
(* to: only the oldest file's may be in use when the loop comes to it.     *)
StepInv ==
  /\ pc \in {"down", "idle", "rotate", "rename"} /\ index \in Files
  /\ pc # "idle" => ~fh.isOpen
  /\ pending \in Seq(Logged) /\ (pc \in {"down", "idle"} => pending = <<>>)
  /\ Len(pending) <= 1 /\ (pending # <<>> => why = "log")
  /\ pc = "rename" => index > 0 /\ Exists(fh, index - 1) /\ ~Exists(fh, index)
  /\ pc = "rotate" /\ index < MaxFiles => ~Exists(fh, index)

(***************************************************************************)
(* The inductive invariant of RotatingFile.                                *)
(***************************************************************************)
RotatingInv ==
  /\ LogFileInv(fh) /\ StepInv /\ nextId \in Nat
  /\ \A id \in Held(fh, pending) : id < nextId
  /\ FilesAreInOrder

(* Numbers are integers.                                                   *)
LEMMA IdsAreNumbers ==
  ASSUME NEW s \in Seq(Logged)
  PROVE  Ids(s) \subseteq Int
<1>1. \A k \in DOMAIN s : s[k] \in Logged
  OBVIOUS
<1>2. \A m \in Logged : m.id \in Int
  BY DEF Logged
<1> QED
  BY <1>1, <1>2 DEF Ids

(* What a helper and a waiting message hold.                               *)
LEMMA HeldIs ==
  ASSUME NEW h, NEW waiting, NEW id
  PROVE  id \in Held(h, waiting) <=>
           \/ \E n \in Files : id \in Ids(Stored(h, n))
           \/ id \in Ids(h.buffer) \/ id \in Ids(waiting)
  BY DEF Held, Files

(* A call that changes no file, and not what is not in one, changes        *)
(* nothing that matters.                                                   *)
LEMMA SameKeepsOrder ==
  ASSUME NEW h, NEW w \in Seq(Logged), NEW g, NEW x \in Seq(Logged), IsHelper(h), IsHelper(g),
         View(g) = View(h), g.buffer \o x = h.buffer \o w, InOrder(h, w)
  PROVE  InOrder(g, x) /\ Held(g, x) = Held(h, w)
  BY OrderIsOfTheView

(* A call that empties files, or what is not in one, keeps the others in   *)
(* order.                                                                  *)
LEMMA WithoutKeepsOrder ==
  ASSUME NEW h, NEW w \in Seq(Logged), NEW g, NEW x \in Seq(Logged), IsHelper(h), IsHelper(g),
         \A n \in Files : Stored(g, n) \in {Stored(h, n), <<>>},
         g.buffer \o x \in {h.buffer \o w, <<>>}, InOrder(h, w)
  PROVE  InOrder(g, x) /\ Held(g, x) \subseteq Held(h, w)
<1>1. PICK st, sub : st = View(h) /\ sub = View(g)
  OBVIOUS
<1>2. \A n \in Files : sub[n] \in {st[n], <<>>}
  BY <1>1 DEF View
<1>3. PICK tail, rest : tail = h.buffer \o w /\ rest = g.buffer \o x
  OBVIOUS
<1>4. rest \in {tail, <<>>} /\ Ordered(st, tail)
  BY <1>1, <1>3, OrderIsOfTheView
<1>5. Ordered(sub, rest)
  BY <1>2, <1>4, OrderedWithout
<1>6. HeldIn(sub, rest) \subseteq HeldIn(st, tail)
  BY <1>2, <1>4, HeldMembers, IdsOfParts
<1> QED
  BY <1>1, <1>3, <1>5, <1>6, OrderIsOfTheView

(* A message that is numbered after the others goes behind them.           *)
LEMMA AppendKeepsOrder ==
  ASSUME NEW h, NEW w \in Seq(Logged), NEW m \in Logged, IsHelper(h), InOrder(h, w),
         \A id \in Held(h, w) : id < m.id
  PROVE  /\ Ordered(View(h), (h.buffer \o w) \o <<m>>)
         /\ HeldIn(View(h), (h.buffer \o w) \o <<m>>) = Held(h, w) \cup {m.id}
<1>1. PICK st, tail : st = View(h) /\ tail = h.buffer \o w
  OBVIOUS
<1>2. tail \in Seq(Logged) /\ Ordered(st, tail) /\ Held(h, w) = HeldIn(st, tail)
  BY <1>1, OrderIsOfTheView
<1>3. Ordered(st, tail \o <<m>>) /\ HeldIn(st, tail \o <<m>>) = HeldIn(st, tail) \cup {m.id}
  BY <1>2, OrderedAppended
<1> QED
  BY <1>1, <1>2, <1>3

(* Flushing, and closing, moves messages and drops none.                   *)
LEMMA FlushKeepsOrder ==
  ASSUME NEW h, LogFileInv(h), NEW g \in {Flushed(h), Closed(h)},
         NEW w \in Seq(Logged), InOrder(h, w)
  PROVE  /\ LogFileInv(g) /\ g.buffer = <<>> /\ DOMAIN g.dir = DOMAIN h.dir
         /\ InOrder(g, w) /\ Held(g, w) = Held(h, w)
<1>1. /\ IsHelper(g) /\ g.buffer = <<>> /\ g.filename = 0 /\ ~g.unlinked
      /\ DOMAIN g.dir = DOMAIN h.dir
      /\ \A n : Stored(g, n) = Stored(Flushed(h), n)
  BY FlushedHelper, ClosedHelper DEF LogFileInv
<1>2. PICK st, b : st = View(h) /\ b = h.buffer
  OBVIOUS
<1>3. st \in [Files -> Seq(Logged)] /\ b \in Seq(Logged) /\ Ordered(st, b \o w)
      /\ Held(h, w) = HeldIn(st, b \o w)
  BY <1>2, OrderIsOfTheView DEF LogFileInv
<1>4. PICK new : new = View(g)
  OBVIOUS
<1>5. new \in [Files -> Seq(Logged)]
  BY <1>1, <1>4, OrderIsOfTheView
<1>6. \A n \in Files : new[n] = IF n = 0 THEN st[n] \o b ELSE st[n]
  <2>1. \A n \in Files : new[n] = Stored(Flushed(h), n) /\ st[n] = Stored(h, n)
    BY <1>1, <1>2, <1>4 DEF View
  <2>2. \A n \in Files : st[n] \o <<>> = st[n]
    BY <1>3
  <2>3. h.isOpen \/ b = <<>>
    BY <1>2 DEF LogFileInv, IsHelper
  <2>4. \A n : Stored(Flushed(h), n) = IF h.isOpen /\ n = 0 THEN Stored(h, n) \o b ELSE Stored(h, n)
    BY <1>2, FlushedHelper DEF LogFileInv
  <2>5. CASE h.isOpen
    BY <2>1, <2>4, <2>5
  <2>6. CASE b = <<>>
    <3>1. ASSUME NEW n \in Files PROVE new[n] = st[n] /\ st[n] \o b = st[n]
      <4>1. Stored(Flushed(h), n) \in {Stored(h, n) \o b, Stored(h, n)}
        BY <2>4
      <4> QED
        BY <2>1, <2>2, <2>6, <4>1
    <3> QED
      BY <3>1
  <2> QED
    BY <2>3, <2>5, <2>6
<1>7. Ordered(new, w) /\ HeldIn(new, w) = HeldIn(st, b \o w)
  BY <1>3, <1>5, <1>6, OrderedFlushed
<1>8. g.buffer \o w = w
  BY <1>1
<1>9. InOrder(g, w) /\ Held(g, w) = HeldIn(new, w)
  BY <1>1, <1>4, <1>7, <1>8, OrderIsOfTheView
<1> QED
  BY <1>1, <1>3, <1>7, <1>9 DEF LogFileInv

(* What a write that stops leaves, and the messages it does not.           *)
Left(h, p) == [h EXCEPT !.buffer = p]
Gone(t, p) == {m.id : m \in Range(t) \ Range(p)}

(* What a write that stops leaves of messages that are in order is in      *)
(* order, and the rest is counted.                                         *)
LEMMA StopKeepsOrder ==
  ASSUME NEW h, LogFileInv(h), h.isOpen, NEW t \in Seq(Logged), Ordered(View(h), t),
         NEW p \in Parts(t), NEW g, g = Left(h, p) \/ g = Flushed(Left(h, p))
  PROVE  /\ LogFileInv(g) /\ g.isOpen /\ InOrder(g, <<>>)
         /\ Held(g, <<>>) \subseteq HeldIn(View(h), t)
         /\ HeldIn(View(h), t) \subseteq Held(g, <<>>) \cup Gone(t, p)
<1>1. PICK left, w, st, rest : /\ left = Left(h, p) /\ w = <<>> /\ st = View(h)
                               /\ rest = Gone(t, p)
  OBVIOUS
<1>2. /\ p \in Seq(Logged) /\ Ids(p) \subseteq Ids(t) /\ (Increasing(t) => Increasing(p))
      /\ Ids(t) \subseteq Ids(p) \cup rest
  BY <1>1, PartInOrder DEF Gone
<1>3. LogFileInv(left) /\ left.isOpen /\ left.buffer = p /\ View(left) = st
  <2>1. /\ IsHelper(left) /\ left.dir = h.dir /\ left.filename = h.filename /\ left.isOpen
        /\ left.unlinked = h.unlinked /\ left.buffer = p
        /\ \A n : Stored(left, n) = Stored(h, n)
    BY <1>1, <1>2, BufferedHelper DEF LogFileInv, Left
  <2> QED
    BY <1>1, <2>1 DEF LogFileInv, View
<1>4. Ordered(st, p)
  <2>1. Increasing(p)
    BY <1>2 DEF Ordered
  <2>2. ASSUME NEW n \in Files PROVE Before(st[n], p)
    <3>1. \A i \in Ids(st[n]), j \in Ids(t) : i < j
      BY <1>1, BeforeIsOfIds DEF Ordered
    <3>2. \A i \in Ids(st[n]), j \in Ids(p) : i < j
      BY <1>2, <3>1
    <3> QED
      BY <3>2, BeforeIsOfIds
  <2>3. \A n \in Files : Increasing(st[n]) /\ \A i \in 0 .. n - 1 : Before(st[n], st[i])
    BY <1>1 DEF Ordered
  <2> QED
    BY <2>1, <2>2, <2>3, Zenon DEF Ordered
<1>5. p \o w = p /\ w \in Seq(Logged)
  BY <1>1, <1>2
<1>6. InOrder(left, w) /\ Held(left, w) = HeldIn(st, p)
  BY <1>3, <1>4, <1>5, OrderIsOfTheView DEF LogFileInv
<1>7. LogFileInv(g) /\ g.isOpen /\ InOrder(g, w) /\ Held(g, w) = HeldIn(st, p)
  <2>1. CASE g = left
    BY <1>3, <1>6, <2>1
  <2>2. CASE g = Flushed(left)
    <3>1. LogFileInv(g) /\ InOrder(g, w) /\ Held(g, w) = Held(left, w)
      BY <1>3, <1>5, <1>6, <2>2, FlushKeepsOrder
    <3>2. g.isOpen
      BY <1>3, <2>2, FlushedHelper DEF LogFileInv
    <3> QED
      BY <1>6, <3>1, <3>2
  <2> QED
    BY <1>1, <2>1, <2>2
<1>8. /\ HeldIn(st, p) \subseteq HeldIn(st, t)
      /\ HeldIn(st, t) \subseteq HeldIn(st, p) \cup rest
  BY <1>2, HeldMembers
<1> QED
  BY <1>1, <1>7, <1>8

(* A write that stops in the files of the log.                             *)
LEMMA StopsInOrder ==
  ASSUME NEW h, LogFileInv(h), h.isOpen, NEW t \in Seq(Logged), Ordered(View(h), t), NEW next,
         WriteStops(h, t, next)
  PROVE  /\ LogFileInv(fh') /\ fh'.isOpen /\ InOrder(fh', <<>>)
         /\ Held(fh', <<>>) \subseteq HeldIn(View(h), t)
         /\ HeldIn(View(h), t) \subseteq Held(fh', <<>>) \cup lost'
         /\ lost \cup next \subseteq lost'
<1>1. PICK p \in Parts(t) :
        /\ fh' \in {[h EXCEPT !.buffer = p], Flushed([h EXCEPT !.buffer = p])}
        /\ lost' = lost \cup next \cup {m.id : m \in Range(t) \ Range(p)}
  BY Zenon DEF WriteStops
<1>2. PICK g : g = fh'
  OBVIOUS
<1>3. (g = Left(h, p) \/ g = Flushed(Left(h, p))) /\ lost' = lost \cup next \cup Gone(t, p)
  BY <1>1, <1>2 DEF Left, Gone
<1>4. /\ LogFileInv(g) /\ g.isOpen /\ InOrder(g, <<>>)
      /\ Held(g, <<>>) \subseteq HeldIn(View(h), t)
      /\ HeldIn(View(h), t) \subseteq Held(g, <<>>) \cup Gone(t, p)
  BY <1>3, StopKeepsOrder
<1> QED
  BY <1>2, <1>3, <1>4

(* Only what is to be written can stop.                                    *)
LEMMA StopsNeedMessages ==
  ASSUME NEW h, NEW t \in Seq(Logged), NEW next, WriteStops(h, t, next)
  PROVE  t # <<>>
<1>1. PICK p \in Parts(t) : TRUE
  BY Zenon DEF WriteStops
<1>2. PICK first, rest \in Seq(Logged) : t = first \o rest /\ rest # <<>>
  BY PartIs
<1> QED
  BY <1>2

(* Opening the log file, or trying to, keeps what is in the others; what   *)
(* was in the log file is gone only if it is to be truncated.              *)
LEMMA OpenKeepsOrder ==
  ASSUME NEW h, LogFileInv(h), ~h.isOpen, NEW truncate \in BOOLEAN,
         NEW g \in {Opened(h, 0, truncate)} \cup NotOpened(h, 0, truncate),
         NEW w \in Seq(Logged), InOrder(h, w)
  PROVE  /\ LogFileInv(g) /\ g.buffer = <<>> /\ DOMAIN g.dir \subseteq DOMAIN h.dir \cup {0}
         /\ InOrder(g, w) /\ Held(g, w) \subseteq Held(h, w)
         /\ \/ Held(h, w) \subseteq Held(g, w)
            \/ /\ truncate /\ 0 \in DOMAIN g.dir /\ g.dir[0] = <<>>
               /\ Held(h, w) \subseteq Held(g, w) \cup Ids(Stored(h, 0))
         /\ \A n \in Files : n # 0 => (Exists(g, n) <=> Exists(h, n))
<1>1. h.buffer = <<>> /\ IsHelper(h) /\ 0 \in Nat /\ 0 \in Files /\ h.buffer \o w = w
  BY RotatingFileAssumption DEF LogFileInv, IsHelper, Files
<1>2. \A n : Stored(Closed(h), n) = Stored(h, n)
  BY <1>1, FlushedHelper, ClosedHelper
<1>3. /\ IsHelper(g) /\ g.buffer = <<>> /\ g.filename = 0 /\ ~g.unlinked
      /\ \/ /\ DOMAIN g.dir \in {DOMAIN h.dir, DOMAIN h.dir \cup {0}}
            /\ \A n : Stored(g, n) = Stored(h, n)
         \/ /\ truncate /\ DOMAIN g.dir = DOMAIN h.dir \cup {0}
            /\ \A n : Stored(g, n) = IF n = 0 THEN <<>> ELSE Stored(h, n)
  <2>1. CASE g = Opened(h, 0, truncate)
    <3>1. /\ IsHelper(g) /\ g.filename = 0 /\ ~g.unlinked /\ g.buffer = <<>>
          /\ DOMAIN g.dir = DOMAIN h.dir \cup {0}
          /\ \A n : Stored(g, n) = IF truncate /\ n = 0 THEN <<>> ELSE Stored(Closed(h), n)
      BY <1>1, <2>1, OpenedHelper
    <3> QED
      BY <1>2, <3>1
  <2>2. CASE g \in NotOpened(h, 0, truncate)
    <3>1. /\ IsHelper(g) /\ g.filename = 0 /\ ~g.unlinked /\ g.buffer = <<>>
          /\ \/ /\ DOMAIN g.dir = DOMAIN h.dir
                /\ \A n : Stored(g, n) = Stored(Closed(h), n)
             \/ /\ truncate /\ DOMAIN g.dir = DOMAIN h.dir \cup {0}
                /\ \A n : Stored(g, n) = IF n = 0 THEN <<>> ELSE Stored(Closed(h), n)
      BY <1>1, <2>2, NotOpenedHelper
    <3> QED
      BY <1>2, <3>1
  <2> QED
    BY <2>1, <2>2
<1>4. LogFileInv(g) /\ \A n \in Files : n # 0 => (Exists(g, n) <=> Exists(h, n))
  BY <1>1, <1>3 DEF LogFileInv, Exists
<1>5. \A n \in Files : Stored(g, n) \in {Stored(h, n), <<>>}
  BY <1>3
<1>6. g.buffer \o w = w
  BY <1>3
<1>7. InOrder(g, w) /\ Held(g, w) \subseteq Held(h, w)
  BY <1>1, <1>3, <1>5, <1>6, WithoutKeepsOrder
<1>8. CASE \A n : Stored(g, n) = Stored(h, n)
  <2>1. Held(g, w) = Held(h, w)
    <3>1. IsHelper(h) /\ IsHelper(g) /\ g.buffer \o w = h.buffer \o w
      BY <1>1, <1>3, <1>6
    <3>2. View(g) = View(h)
      BY <1>8 DEF View
    <3> QED
      BY <3>1, <3>2, SameKeepsOrder
  <2> QED
    BY <1>3, <1>4, <1>7, <2>1
<1>9. CASE /\ truncate /\ DOMAIN g.dir = DOMAIN h.dir \cup {0}
           /\ \A n : Stored(g, n) = IF n = 0 THEN <<>> ELSE Stored(h, n)
  <2>1. 0 \in DOMAIN g.dir /\ g.dir[0] = <<>>
    BY <1>9 DEF Stored, Exists
  <2>2. ASSUME NEW id \in Held(h, w) PROVE id \in Held(g, w) \cup Ids(Stored(h, 0))
    <3>1. (\E n \in Files : id \in Ids(Stored(h, n))) \/ id \in Ids(w)
      BY <1>1, HeldIs, IdsOfParts
    <3>2. CASE id \in Ids(w)
      BY <3>2, HeldIs
    <3>3. ASSUME NEW n \in Files, id \in Ids(Stored(h, n)), n # 0 PROVE id \in Held(g, w)
      BY <1>9, <3>3, HeldIs
    <3> QED
      BY <3>1, <3>2, <3>3
  <2> QED
    BY <1>3, <1>4, <1>7, <1>9, <2>1, <2>2
<1> QED
  BY <1>3, <1>8, <1>9
----------------------------------------------------------------------------
(* The steps of the rotating sink. *)

(* What every step keeps: the invariant, and every message but those of    *)
(* the oldest file and those that are counted as lost.                     *)
KeptByStep ==
  /\ RotatingInv'
  /\ Held(fh, pending) \subseteq Held(fh', pending') \cup lost' \cup Ids(Stored(fh, MaxFiles))

(* The invariant, its last conjunct spelled out.                           *)
LEMMA RotatingFacts ==
  ASSUME RotatingInv
  PROVE  /\ LogFileInv(fh) /\ StepInv /\ nextId \in Nat /\ InOrder(fh, pending)
         /\ \A id \in Held(fh, pending) : id < nextId
         /\ pending \in Seq(Logged)
  BY DEF RotatingInv, StepInv, FilesAreInOrder

(* A step that takes no new message is kept if its files are in order and  *)
(* hold what they held.                                                    *)
LEMMA QuietStep ==
  ASSUME RotatingInv, LogFileInv(fh'), StepInv', nextId' = nextId, InOrder(fh', pending'),
         Held(fh', pending') \subseteq Held(fh, pending),
         Held(fh, pending) \subseteq
           Held(fh', pending') \cup lost' \cup Ids(Stored(fh, MaxFiles))
  PROVE  KeptByStep
  BY DEF KeptByStep, RotatingInv, FilesAreInOrder

(* A step that changes neither the files nor the pending message.          *)
LEMMA StutterStep ==
  ASSUME RotatingInv, UNCHANGED <<fh, pc, index, why, pending, nextId>>
  PROVE  KeptByStep
BY DEF KeptByStep, RotatingInv, StepInv, FilesAreInOrder

(* BeginRotation of a helper of the log file.                              *)
LEMMA BeginRotationStep ==
  ASSUME NEW h, LogFileInv(h), NEW reason, NEW w \in Seq(Logged), Len(w) <= 1,
         w = <<>> \/ reason = "log", InOrder(h, w), BeginRotation(h, reason, w)
  PROVE  /\ LogFileInv(fh') /\ StepInv' /\ pending' = w
         /\ InOrder(fh', pending') /\ Held(fh', pending') = Held(h, w)
<1>1. /\ fh' = Closed(h) /\ pc' = "rotate" /\ index' = MaxFiles /\ pending' = w
      /\ why' = reason
  BY DEF BeginRotation, FirstIndex
<1>2. ~Closed(h).isOpen
  BY ClosedHelper DEF LogFileInv
<1>3. MaxFiles \in Files
  BY RotatingFileAssumption DEF Files
<1>4. StepInv'
  BY <1>1, <1>2, <1>3, RotatingFileAssumption DEF StepInv
<1>5. PICK g : g = Closed(h)
  OBVIOUS
<1>6. LogFileInv(g) /\ InOrder(g, w) /\ Held(g, w) = Held(h, w)
  BY <1>5, FlushKeepsOrder
<1> QED
  BY <1>1, <1>4, <1>5, <1>6

(* The constructor opens the log file, and may rotate at once.             *)
LEMMA OpenSinkStep ==
  ASSUME RotatingInv, NEW rotateOnOpen \in BOOLEAN, OpenSink(rotateOnOpen)
  PROVE  KeptByStep
<1>1. pc = "down" /\ pending = <<>> /\ ~fh.isOpen /\ nextId' = nextId
  BY RotatingFacts DEF OpenSink, StepInv
<1>2. PICK h : h = Opened(fh, 0, FALSE)
  OBVIOUS
<1>3. /\ LogFileInv(h) /\ InOrder(h, pending) /\ Held(h, pending) \subseteq Held(fh, pending)
      /\ Held(fh, pending) \subseteq Held(h, pending)
  BY <1>1, <1>2, RotatingFacts, OpenKeepsOrder
<1>4. \/ BeginRotation(h, "open", <<>>)
      \/ fh' = h /\ pc' = "idle" /\ index' = index /\ pending' = pending
  BY <1>2 DEF OpenSink
<1>5. CASE BeginRotation(h, "open", <<>>)
  <2>1. <<>> \in Seq(Logged) /\ Len(<<>>) <= 1 /\ InOrder(h, <<>>)
    BY <1>1, <1>3
  <2>2. /\ LogFileInv(fh') /\ StepInv' /\ InOrder(fh', pending')
        /\ Held(fh', pending') = Held(h, pending)
    BY <1>1, <1>3, <1>5, <2>1, BeginRotationStep
  <2> QED
    BY <1>1, <1>3, <2>2, QuietStep
<1>6. CASE fh' = h /\ pc' = "idle" /\ index' = index /\ pending' = pending
  <2>1. StepInv'
    BY <1>1, <1>6, RotatingFacts DEF StepInv
  <2> QED
    BY <1>1, <1>3, <1>6, <2>1, QuietStep
<1> QED
  BY <1>4, <1>5, <1>6

(* The constructor fails, and leaves at most an empty file.                *)
LEMMA OpenSinkFailsStep ==
  ASSUME RotatingInv, OpenSinkFails
  PROVE  KeptByStep
<1>1. /\ pc = "down" /\ pending = <<>> /\ ~fh.isOpen /\ nextId' = nextId
      /\ pc' = pc /\ index' = index /\ pending' = pending
  BY RotatingFacts DEF OpenSinkFails, StepInv, rotatingVars
<1>2. PICK h : h = fh' /\ h \in NotOpened(fh, 0, FALSE)
  BY DEF OpenSinkFails
<1>3. /\ LogFileInv(h) /\ InOrder(h, pending) /\ Held(h, pending) \subseteq Held(fh, pending)
      /\ Held(fh, pending) \subseteq Held(h, pending)
  BY <1>1, <1>2, RotatingFacts, OpenKeepsOrder
<1>4. ~h.isOpen
  BY <1>2, RotatingFacts, NotOpenedHelper DEF LogFileInv
<1>5. StepInv'
  BY <1>1, <1>2, <1>4, RotatingFacts DEF StepInv
<1> QED
  BY <1>1, <1>2, <1>3, <1>5, QuietStep
(* A message of some size, as the sink is given it.                        *)
LEMMA NewMessage ==
  ASSUME RotatingInv, NEW size \in MessageSizes
  PROVE  Message(size, 0) \in Logged /\ Message(size, 0).id = nextId
  BY RotatingFacts, RotatingFileAssumption DEF Message, Logged

(* What a step that takes a message has to show.                           *)
LEMMA LogStep ==
  ASSUME RotatingInv, LogFileInv(fh'), StepInv', nextId' = nextId + 1, InOrder(fh', pending'),
         Held(fh', pending') \subseteq Held(fh, pending) \cup {nextId},
         Held(fh, pending) \subseteq Held(fh', pending') \cup lost'
  PROVE  KeptByStep
<1>1. nextId \in Nat /\ \A id \in Held(fh, pending) : id < nextId
  BY RotatingFacts
<1>3. \A id \in Held(fh, pending) : id \in Int
  <2>1. \A n \in Files : Stored(fh, n) \in Seq(Logged)
    BY RotatingFacts DEF Stored, LogFileInv, IsHelper, IsRecord, Exists
  <2>2. fh.buffer \in Seq(Logged) /\ pending \in Seq(Logged)
    BY RotatingFacts DEF LogFileInv, IsHelper, IsRecord
  <2> QED
    BY <2>1, <2>2, HeldIs, IdsAreNumbers
<1>4. \A id \in Held(fh', pending') : id < nextId'
  BY <1>1, <1>3
<1> QED
  BY <1>1, <1>4 DEF KeptByStep, RotatingInv, FilesAreInOrder

(* A message is written, and perhaps the buffer to the disk.               *)
LEMMA LogPlainStep ==
  ASSUME RotatingInv, NEW size \in MessageSizes, LogPlain(size)
  PROVE  KeptByStep
<1>1. PICK m : m = Message(size, 0)
  OBVIOUS
<1>2. m \in Logged /\ m.id = nextId
  BY <1>1, NewMessage
<1>3. /\ pc = "idle" /\ pending = <<>> /\ nextId' = nextId + 1
      /\ pc' = pc /\ index' = index /\ pending' = pending
  BY RotatingFacts DEF LogPlain, LogCall, StepInv
<1>4. StepInv'
  BY <1>3, RotatingFacts DEF StepInv
<1>5. ASSUME NEW h, LogFileInv(h), InOrder(h, <<>>), Held(h, <<>>) = Held(fh, <<>>)
      PROVE  /\ LogFileInv(Written(h, m)) /\ InOrder(Written(h, m), <<>>)
             /\ \/ Held(Written(h, m), <<>>) = Held(fh, <<>>)
                \/ Held(Written(h, m), <<>>) = Held(fh, <<>>) \cup {nextId}
  <2>1. PICK g : g = Written(h, m)
    OBVIOUS
  <2>2. /\ IsHelper(g) /\ g.dir = h.dir /\ g.filename = h.filename
        /\ g.unlinked = h.unlinked
        /\ g.buffer = IF h.isOpen THEN Append(h.buffer, m) ELSE h.buffer
        /\ \A n : Stored(g, n) = Stored(h, n)
    BY <1>2, <1>5, <2>1, WrittenHelper DEF LogFileInv
  <2>3. LogFileInv(g)
    BY <1>5, <2>2 DEF LogFileInv
  <2>4. h.buffer \in Seq(Logged) /\ IsHelper(h) /\ <<>> \in Seq(Logged)
    BY <1>5 DEF LogFileInv, IsHelper, IsRecord
  <2>5. CASE h.isOpen
    <3>1. g.buffer \o <<>> = (h.buffer \o <<>>) \o <<m>>
      BY <1>2, <2>2, <2>4, <2>5
    <3>2. \A id \in Held(h, <<>>) : id < m.id
      BY <1>2, <1>3, <1>5, RotatingFacts
    <3>3. InOrder(g, <<>>) /\ Held(g, <<>>) = Held(h, <<>>) \cup {m.id}
      <4>1. View(g) = View(h)
        BY <2>2 DEF View
      <4>2. IsHelper(g)
        BY <2>2
      <4>3. /\ Ordered(View(g), g.buffer \o <<>>)
            /\ HeldIn(View(g), g.buffer \o <<>>) = Held(h, <<>>) \cup {m.id}
        <5>1. PICK e : e = <<>>
          OBVIOUS
        <5>2. /\ e \in Seq(Logged) /\ m \in Logged /\ IsHelper(h) /\ InOrder(h, e)
              /\ \A id \in Held(h, e) : id < m.id
          BY <1>2, <1>5, <2>4, <3>2, <5>1
        <5>3. /\ Ordered(View(h), (h.buffer \o e) \o <<m>>)
              /\ HeldIn(View(h), (h.buffer \o e) \o <<m>>) = Held(h, e) \cup {m.id}
          BY <5>2, AppendKeepsOrder
        <5> QED
          BY <3>1, <4>1, <5>1, <5>3
      <4> QED
        BY <2>4, <4>2, <4>3, OrderIsOfTheView
    <3> QED
      BY <1>2, <1>5, <2>1, <2>3, <3>3
  <2>6. CASE ~h.isOpen
    BY <1>5, <2>6 DEF Written
  <2> QED
    BY <2>5, <2>6
<1>6. LogFileInv(fh) /\ InOrder(fh, <<>>) /\ <<>> \in Seq(Logged)
  BY <1>3, RotatingFacts
<1>7. LogFileInv(Flushed(fh)) /\ InOrder(Flushed(fh), <<>>) /\ Held(Flushed(fh), <<>>) = Held(fh, <<>>)
  BY <1>6, FlushKeepsOrder
<1>8. PICK w : w = Written(fh, m)
  OBVIOUS
<1>9. /\ LogFileInv(w) /\ InOrder(w, <<>>)
      /\ \/ Held(w, <<>>) = Held(fh, <<>>) \/ Held(w, <<>>) = Held(fh, <<>>) \cup {nextId}
  BY <1>5, <1>6, <1>8
<1>10. LogFileInv(Flushed(w)) /\ InOrder(Flushed(w), <<>>) /\ Held(Flushed(w), <<>>) = Held(w, <<>>)
  BY <1>6, <1>9, FlushKeepsOrder
<1>11. fh' \in {w, Flushed(w), Written(Flushed(fh), m)}
  BY <1>1, <1>8 DEF LogPlain
<1>12. /\ LogFileInv(fh') /\ InOrder(fh', <<>>)
       /\ \/ Held(fh', <<>>) = Held(fh, <<>>) \/ Held(fh', <<>>) = Held(fh, <<>>) \cup {nextId}
  BY <1>5, <1>7, <1>9, <1>10, <1>11
<1> QED
  BY <1>3, <1>4, <1>12, LogStep

(* A message waits for a rotation.                                         *)
LEMMA LogRotatesStep ==
  ASSUME RotatingInv, NEW size \in MessageSizes, LogRotates(size)
  PROVE  KeptByStep
<1>1. PICK m : m = Message(size, 0)
  OBVIOUS
<1>2. m \in Logged /\ m.id = nextId /\ <<m>> \in Seq(Logged) /\ Len(<<m>>) <= 1
  BY <1>1, NewMessage
<1>3. pending = <<>> /\ nextId' = nextId + 1 /\ <<>> \in Seq(Logged)
  BY RotatingFacts DEF LogRotates, LogCall, StepInv
<1>4. PICK h : h = Flushed(fh)
  OBVIOUS
<1>5. /\ LogFileInv(h) /\ h.buffer = <<>> /\ InOrder(h, <<>>)
      /\ Held(h, <<>>) = Held(fh, pending)
  BY <1>3, <1>4, RotatingFacts, FlushKeepsOrder
<1>6. InOrder(h, <<m>>) /\ Held(h, <<m>>) = Held(fh, pending) \cup {nextId}
  <2>1. IsHelper(h) /\ h.buffer \o <<m>> = (h.buffer \o <<>>) \o <<m>>
    BY <1>2, <1>5 DEF LogFileInv
  <2>2. \A id \in Held(h, <<>>) : id < m.id
    BY <1>2, <1>5, RotatingFacts
  <2>3. /\ Ordered(View(h), h.buffer \o <<m>>)
        /\ HeldIn(View(h), h.buffer \o <<m>>) = Held(h, <<>>) \cup {m.id}
    <3>1. PICK e : e = <<>>
      OBVIOUS
    <3>2. /\ e \in Seq(Logged) /\ m \in Logged /\ IsHelper(h) /\ InOrder(h, e)
          /\ \A id \in Held(h, e) : id < m.id
      BY <1>2, <1>3, <1>5, <2>1, <2>2, <3>1
    <3>3. /\ Ordered(View(h), (h.buffer \o e) \o <<m>>)
          /\ HeldIn(View(h), (h.buffer \o e) \o <<m>>) = Held(h, e) \cup {m.id}
      BY <3>2, AppendKeepsOrder
    <3> QED
      BY <2>1, <3>1, <3>3
  <2> QED
    BY <1>2, <1>5, <2>1, <2>3, OrderIsOfTheView
<1>7. BeginRotation(h, "log", <<m>>)
  BY <1>1, <1>4 DEF LogRotates
<1>8. /\ LogFileInv(fh') /\ StepInv' /\ InOrder(fh', pending')
      /\ Held(fh', pending') = Held(h, <<m>>)
  BY <1>2, <1>5, <1>6, <1>7, BeginRotationStep
<1> QED
  BY <1>3, <1>6, <1>8, LogStep

(* What stdio has cannot be written.                                       *)
LEMMA BufferStopsStep ==
  ASSUME RotatingInv, pc = "idle", UNCHANGED <<pc, index, pending>>, NEW next,
         WriteStops(fh, fh.buffer, next)
  PROVE  /\ LogFileInv(fh') /\ StepInv' /\ InOrder(fh', pending')
         /\ Held(fh', pending') \subseteq Held(fh, pending)
         /\ Held(fh, pending) \subseteq Held(fh', pending') \cup lost'
<1>1. PICK w, t : w = <<>> /\ t = fh.buffer
  OBVIOUS
<1>2. /\ pending = w /\ pending' = w /\ w \in Seq(Logged) /\ t \in Seq(Logged)
      /\ t = fh.buffer \o w /\ IsHelper(fh)
  BY <1>1, RotatingFacts DEF StepInv, LogFileInv, IsHelper, IsRecord
<1>3. fh.isOpen
  BY <1>1, <1>2, StopsNeedMessages DEF IsHelper
<1>4. Ordered(View(fh), t) /\ Held(fh, w) = HeldIn(View(fh), t)
  BY <1>2, RotatingFacts, OrderIsOfTheView
<1>5. WriteStops(fh, t, next) /\ LogFileInv(fh)
  BY <1>1, RotatingFacts
<1>6. /\ LogFileInv(fh') /\ fh'.isOpen /\ InOrder(fh', <<>>)
      /\ Held(fh', <<>>) \subseteq HeldIn(View(fh), t)
      /\ HeldIn(View(fh), t) \subseteq Held(fh', <<>>) \cup lost'
  BY <1>2, <1>3, <1>4, <1>5, StopsInOrder
<1>7. StepInv'
  BY <1>6, RotatingFacts DEF StepInv
<1> QED
  BY <1>1, <1>2, <1>4, <1>6, <1>7

(* A message is refused, or the flush before it fails.                     *)
LEMMA LogThrowsStep ==
  ASSUME RotatingInv, NEW size \in MessageSizes, LogThrows(size)
  PROVE  KeptByStep
<1>1. /\ pc = "idle" /\ pc' = pc /\ index' = index /\ pending' = pending
      /\ nextId' = nextId + 1
      /\ fh' = fh \/ WriteStops(fh, fh.buffer, {nextId})
  BY DEF LogThrows, LogCall, rotatingVars
<1>2. CASE fh' = fh
  <2>1. StepInv'
    BY <1>1, <1>2, RotatingFacts DEF StepInv
  <2> QED
    BY <1>1, <1>2, <2>1, RotatingFacts, LogStep
<1>3. CASE WriteStops(fh, fh.buffer, {nextId})
  <2>1. /\ LogFileInv(fh') /\ StepInv' /\ InOrder(fh', pending')
        /\ Held(fh', pending') \subseteq Held(fh, pending)
        /\ Held(fh, pending) \subseteq Held(fh', pending') \cup lost'
    BY <1>1, <1>3, BufferStopsStep
  <2> QED
    BY <1>1, <2>1, LogStep
<1> QED
  BY <1>1, <1>2, <1>3

(* A message is given to stdio, and its writing fails.                     *)
LEMMA LogFailsStep ==
  ASSUME RotatingInv, NEW size \in MessageSizes, LogFails(size)
  PROVE  KeptByStep
<1>1. PICK m, w : m = Message(size, 0) /\ w = <<>>
  OBVIOUS
<1>2. m \in Logged /\ m.id = nextId /\ w \in Seq(Logged)
  BY <1>1, NewMessage
<1>3. /\ pc = "idle" /\ pending = w /\ nextId' = nextId + 1 /\ fh.isOpen
      /\ pc' = pc /\ index' = index /\ pending' = pending
      /\ WriteStops(fh, Append(fh.buffer, m), {})
  BY <1>1, RotatingFacts DEF LogFails, LogCall, StepInv, rotatingVars
<1>4. PICK t : t = Append(fh.buffer, m)
  OBVIOUS
<1>5. t \in Seq(Logged) /\ t = (fh.buffer \o w) \o <<m>>
  <2>1. fh.buffer \in Seq(Logged)
    BY RotatingFacts DEF LogFileInv, IsHelper, IsRecord
  <2>2. PICK b : b = fh.buffer
    OBVIOUS
  <2>3. b \in Seq(Logged) /\ t = Append(b, m)
    BY <1>4, <2>1, <2>2
  <2>4. t \in Seq(Logged) /\ t = (b \o w) \o <<m>>
    BY <1>1, <1>2, <2>3
  <2> QED
    BY <2>2, <2>4
<1>6. Ordered(View(fh), t) /\ HeldIn(View(fh), t) = Held(fh, w) \cup {m.id}
  <2>1. IsHelper(fh) /\ InOrder(fh, w) /\ \A id \in Held(fh, w) : id < m.id
    BY <1>2, <1>3, RotatingFacts DEF LogFileInv
  <2>2. /\ Ordered(View(fh), (fh.buffer \o w) \o <<m>>)
        /\ HeldIn(View(fh), (fh.buffer \o w) \o <<m>>) = Held(fh, w) \cup {m.id}
    BY <1>2, <2>1, AppendKeepsOrder
  <2> QED
    BY <1>5, <2>2
<1>7. LogFileInv(fh) /\ WriteStops(fh, t, {})
  BY <1>3, <1>4, RotatingFacts
<1>8. /\ LogFileInv(fh') /\ fh'.isOpen /\ InOrder(fh', <<>>)
      /\ Held(fh', <<>>) \subseteq HeldIn(View(fh), t)
      /\ HeldIn(View(fh), t) \subseteq Held(fh', <<>>) \cup lost'
  BY <1>3, <1>5, <1>6, <1>7, StopsInOrder
<1>9. StepInv'
  BY <1>3, RotatingFacts DEF StepInv
<1> QED
  BY <1>1, <1>2, <1>3, <1>6, <1>8, <1>9, LogStep

(* A flush fails.                                                          *)
LEMMA FlushFailsStep ==
  ASSUME RotatingInv, FlushFails
  PROVE  KeptByStep
<1>1. /\ pc = "idle" /\ pc' = pc /\ index' = index /\ pending' = pending
      /\ nextId' = nextId /\ WriteStops(fh, fh.buffer, {})
  BY DEF FlushFails, rotatingVars
<1>2. /\ LogFileInv(fh') /\ StepInv' /\ InOrder(fh', pending')
      /\ Held(fh', pending') \subseteq Held(fh, pending)
      /\ Held(fh, pending) \subseteq Held(fh', pending') \cup lost'
  BY <1>1, BufferStopsStep
<1> QED
  BY <1>1, <1>2, QuietStep

(* The file is closed, whether for a rotation or for good.                 *)
LEMMA RotateNowStep ==
  ASSUME RotatingInv, RotateNow
  PROVE  KeptByStep
<1>1. /\ pending = <<>> /\ nextId' = nextId /\ BeginRotation(fh, "hand", <<>>)
  BY RotatingFacts DEF RotateNow, StepInv
<1>2. Len(pending) <= 1 /\ BeginRotation(fh, "hand", pending)
  BY <1>1
<1>3. /\ LogFileInv(fh') /\ StepInv' /\ InOrder(fh', pending')
      /\ Held(fh', pending') = Held(fh, pending)
  BY <1>1, <1>2, RotatingFacts, BeginRotationStep
<1> QED
  BY <1>1, <1>3, QuietStep

(* A flush by hand, and the destructor.                                    *)
LEMMA FlushOrDestroyStep ==
  ASSUME RotatingInv, FlushSink \/ DestroySink
  PROVE  KeptByStep
<1>1. /\ pc = "idle" /\ nextId' = nextId /\ index' = index /\ pending' = pending
      /\ \/ fh' = Flushed(fh) /\ pc' = "idle"
         \/ fh' = Closed(fh) /\ pc' = "down"
  BY DEF FlushSink, DestroySink, rotatingVars
<1>2. /\ LogFileInv(fh') /\ InOrder(fh', pending) /\ Held(fh', pending) = Held(fh, pending)
  BY <1>1, RotatingFacts, FlushKeepsOrder
<1>3. ~Closed(fh).isOpen
  BY RotatingFacts, ClosedHelper DEF LogFileInv
<1>4. StepInv'
  BY <1>1, <1>3, RotatingFacts DEF StepInv
<1> QED
  BY <1>1, <1>2, <1>4, QuietStep

(* A file that is not there is skipped.                                    *)
LEMMA SkipMissingStep ==
  ASSUME RotatingInv, SkipMissing
  PROVE  KeptByStep
<1>1. /\ pc = "rotate" /\ index > 0 /\ ~Exists(fh, index - 1) /\ index' = index - 1
      /\ fh' = fh /\ nextId' = nextId /\ pc' = pc /\ pending' = pending /\ why' = why
  BY DEF SkipMissing, SkipIndex, fileVars
<1>2. index - 1 \in Files
  BY <1>1, RotatingFacts, RotatingFileAssumption DEF StepInv, Files
<1>3. StepInv'
  BY <1>1, <1>2, RotatingFacts DEF StepInv, Exists
<1> QED
  BY <1>1, <1>3, RotatingFacts, QuietStep

(* The target is removed: only the oldest file can be there.               *)
LEMMA RemoveTargetStep ==
  ASSUME RotatingInv, RemoveTarget
  PROVE  KeptByStep
<1>1. /\ pc = "rotate" /\ index > 0 /\ Exists(fh, index - 1) /\ index' = index
      /\ fh' = Removed(fh, index) /\ nextId' = nextId /\ pc' = "rename" /\ pending' = pending
      /\ why' = why
  BY DEF RemoveTarget
<1>2. index \in Files /\ ~fh.isOpen /\ (index < MaxFiles => ~Exists(fh, index)) /\ index \in Nat
  BY <1>1, RotatingFacts, RotatingFileAssumption DEF StepInv, Files
<1>3. PICK g : g = Removed(fh, index)
  OBVIOUS
<1>4. /\ IsHelper(g) /\ g.filename = 0 /\ ~g.isOpen /\ g.buffer = fh.buffer /\ ~g.unlinked
      /\ DOMAIN g.dir = DOMAIN fh.dir \ {index}
      /\ \A n : Stored(g, n) = IF n = index THEN <<>> ELSE Stored(fh, n)
  BY <1>2, <1>3, RotatingFacts, RemovedHelper DEF LogFileInv
<1>5. LogFileInv(g)
  BY <1>4, RotatingFacts DEF LogFileInv
<1>6. index - 1 # index
  BY <1>2
<1>7. StepInv'
  BY <1>1, <1>2, <1>3, <1>4, <1>6, RotatingFacts DEF StepInv, Exists
<1>8. InOrder(g, pending) /\ Held(g, pending) \subseteq Held(fh, pending)
  <2>1. \A n \in Files : Stored(g, n) \in {Stored(fh, n), <<>>}
    BY <1>4
  <2>2. g.buffer \o pending \in {fh.buffer \o pending, <<>>} /\ IsHelper(fh)
    BY <1>4, RotatingFacts DEF LogFileInv
  <2> QED
    BY <1>4, <2>1, <2>2, RotatingFacts, WithoutKeepsOrder
<1>9. ASSUME NEW id \in Held(fh, pending)
      PROVE  id \in Held(g, pending) \cup Ids(Stored(fh, MaxFiles))
  <2>1. CASE id \in Ids(fh.buffer) \/ id \in Ids(pending)
    BY <1>4, <2>1, HeldIs
  <2>2. ASSUME NEW n \in Files, id \in Ids(Stored(fh, n))
        PROVE  id \in Held(g, pending) \cup Ids(Stored(fh, MaxFiles))
    <3>1. CASE n # index
      BY <1>4, <2>2, <3>1, HeldIs
    <3>2. CASE n = index
      <4>1. index < MaxFiles \/ index = MaxFiles
        BY <1>2, RotatingFileAssumption DEF Files
      <4>2. index < MaxFiles => Stored(fh, index) = <<>>
        BY <1>2 DEF Stored
      <4> QED
        BY <2>2, <3>2, <4>1, <4>2, IdsOfParts
    <3> QED
      BY <3>1, <3>2
  <2> QED
    BY <2>1, <2>2, HeldIs
<1> QED
  BY <1>1, <1>3, <1>5, <1>7, <1>8, <1>9, QuietStep

(* The source takes the name of the target, which is free.                 *)
LEMMA RenameStep ==
  ASSUME RotatingInv, Rename
  PROVE  KeptByStep
<1>1. /\ pc = "rename" /\ fh' = Renamed(fh, index - 1, index) /\ index' = index - 1
      /\ pc' = "rotate" /\ pending' = pending /\ nextId' = nextId /\ why' = why
  BY DEF Rename
<1>2. /\ index \in Files /\ index > 0 /\ ~fh.isOpen /\ ~Exists(fh, index)
      /\ Exists(fh, index - 1) /\ index \in Nat /\ index - 1 \in Files /\ index - 1 # index
  BY <1>1, RotatingFacts, RotatingFileAssumption DEF StepInv, Files
<1>3. PICK g, k : g = Renamed(fh, k - 1, k) /\ k = index
  OBVIOUS
<1>4. /\ IsHelper(g) /\ g.filename = 0 /\ ~g.isOpen /\ g.buffer = fh.buffer /\ ~g.unlinked
      /\ DOMAIN g.dir = (DOMAIN fh.dir \ {k - 1}) \cup {k}
      /\ \A n : Stored(g, n) = IF n = k THEN Stored(fh, k - 1)
                               ELSE IF n = k - 1 THEN <<>> ELSE Stored(fh, n)
  BY <1>2, <1>3, RotatingFacts, RenamedHelper DEF LogFileInv, Exists
<1>5. LogFileInv(g)
  BY <1>2, <1>3, <1>4, RotatingFacts DEF LogFileInv
<1>6. StepInv'
  BY <1>1, <1>2, <1>3, <1>4, RotatingFacts DEF StepInv, Exists
<1>7. PICK st, new, tail : st = View(fh) /\ new = View(g) /\ tail = fh.buffer \o pending
  OBVIOUS
<1>8. /\ st \in [Files -> Seq(Logged)] /\ tail \in Seq(Logged) /\ Ordered(st, tail)
      /\ Held(fh, pending) = HeldIn(st, tail)
  BY <1>7, RotatingFacts, OrderIsOfTheView DEF LogFileInv
<1>9. new \in [Files -> Seq(Logged)]
  BY <1>4, <1>7, RotatingFacts, OrderIsOfTheView
<1>10. /\ st[k] = <<>>
       /\ \A n \in Files : new[n] = IF n = k THEN st[k - 1]
                                    ELSE IF n = k - 1 THEN <<>> ELSE st[n]
  BY <1>2, <1>3, <1>4, <1>7 DEF View, Stored
<1>11. Ordered(new, tail) /\ HeldIn(new, tail) = HeldIn(st, tail)
  BY <1>2, <1>3, <1>8, <1>9, <1>10, OrderedShifted
<1>12. InOrder(g, pending) /\ Held(g, pending) = Held(fh, pending)
  BY <1>4, <1>7, <1>8, <1>11, RotatingFacts, OrderIsOfTheView
<1> QED
  BY <1>1, <1>3, <1>5, <1>6, <1>12, QuietStep
(* What is held without the pending message.                               *)
LEMMA WithoutPending ==
  ASSUME NEW h, NEW w
  PROVE  Held(h, w) \subseteq Held(h, <<>>) \cup Ids(w)
  BY HeldIs

(* A rotation that fails leaves the sink, or its constructor.              *)
LEMMA RenameFailsStep ==
  ASSUME RotatingInv, RenameFails
  PROVE  KeptByStep
<1>1. /\ pc = "rename" /\ nextId' = nextId /\ index' = index /\ pending' = <<>>
      /\ pc' = IF why = "open" THEN "down" ELSE "idle"
      /\ lost' = lost \cup Ids(pending) \cup
                   (IF Exists(fh, 0) /\ fh'.dir[0] = <<>> THEN Ids(fh.dir[0]) ELSE {})
  BY DEF RenameFails, Throw
<1>2. ~fh.isOpen /\ index \in Files /\ <<>> \in Seq(Logged) /\ fh.buffer = <<>>
  BY <1>1, RotatingFacts DEF StepInv, LogFileInv, IsHelper
<1>3. InOrder(fh, <<>>) /\ Held(fh, <<>>) \subseteq Held(fh, pending)
  <2>1. /\ \A n \in Files : Stored(fh, n) \in {Stored(fh, n), <<>>}
        /\ fh.buffer \o <<>> \in {fh.buffer \o pending, <<>>} /\ IsHelper(fh)
    BY <1>2, RotatingFacts DEF LogFileInv
  <2> QED
    BY <1>2, <2>1, RotatingFacts, WithoutKeepsOrder
<1>4. PICK g \in {Opened(fh, 0, TRUE)} \cup NotOpened(fh, 0, TRUE) :
        \/ fh' = g /\ (g.isOpen => pc' = "idle")
        \/ fh' = Closed(g)
  <2>1. CASE fh' = IF why = "open" THEN Closed(Opened(fh, 0, TRUE)) ELSE Opened(fh, 0, TRUE)
    BY <1>1, <2>1
  <2>2. CASE fh' \in NotOpened(fh, 0, TRUE)
    BY <2>2, RotatingFacts, NotOpenedHelper DEF LogFileInv
  <2> QED
    BY <2>1, <2>2 DEF RenameFails
<1>5. /\ LogFileInv(g) /\ g.buffer = <<>> /\ InOrder(g, <<>>)
      /\ Held(g, <<>>) \subseteq Held(fh, <<>>)
      /\ \/ Held(fh, <<>>) \subseteq Held(g, <<>>)
         \/ /\ 0 \in DOMAIN g.dir /\ g.dir[0] = <<>>
            /\ Held(fh, <<>>) \subseteq Held(g, <<>>) \cup Ids(Stored(fh, 0))
  BY <1>2, <1>3, <1>4, RotatingFacts, OpenKeepsOrder
<1>6. /\ LogFileInv(fh') /\ InOrder(fh', <<>>) /\ Held(fh', <<>>) = Held(g, <<>>)
      /\ (0 \in DOMAIN g.dir /\ g.dir[0] = <<>> => fh'.dir[0] = <<>>)
  <2>1. CASE fh' = g
    BY <1>5, <2>1
  <2>2. CASE fh' = Closed(g)
    <3>1. PICK c : c = Closed(g)
      OBVIOUS
    <3>2. /\ LogFileInv(c) /\ InOrder(c, <<>>) /\ Held(c, <<>>) = Held(g, <<>>)
          /\ DOMAIN c.dir = DOMAIN g.dir
      BY <1>2, <1>5, <3>1, FlushKeepsOrder
    <3>3. ASSUME 0 \in DOMAIN g.dir, g.dir[0] = <<>> PROVE c.dir[0] = <<>>
      <4>1. Stored(c, 0) = Stored(Flushed(g), 0)
        BY <1>5, <3>1, ClosedHelper DEF LogFileInv
      <4>2. Stored(Flushed(g), 0) \in {Stored(g, 0), Stored(g, 0) \o g.buffer}
        BY <1>5, FlushedHelper DEF LogFileInv
      <4>3. Stored(g, 0) = <<>> /\ <<>> \o <<>> = <<>>
        BY <3>3 DEF Stored, Exists
      <4> QED
        BY <1>5, <3>2, <3>3, <4>1, <4>2, <4>3 DEF Stored, Exists
    <3> QED
      BY <2>2, <3>1, <3>2, <3>3
  <2> QED
    BY <1>4, <2>1, <2>2
<1>7. StepInv'
  <2>1. ~Closed(g).isOpen
    BY <1>5, ClosedHelper DEF LogFileInv
  <2>2. pc' \in {"down", "idle"} /\ (pc' # "idle" => ~fh'.isOpen)
    BY <1>1, <1>4, <2>1
  <2> QED
    BY <1>1, <1>2, <2>2 DEF StepInv
<1>8. Held(fh, <<>>) \subseteq Held(fh', <<>>) \cup lost'
  <2>1. CASE Held(fh, <<>>) \subseteq Held(g, <<>>)
    BY <1>6, <2>1
  <2>2. CASE /\ 0 \in DOMAIN g.dir /\ g.dir[0] = <<>>
             /\ Held(fh, <<>>) \subseteq Held(g, <<>>) \cup Ids(Stored(fh, 0))
    <3>1. Ids(Stored(fh, 0)) \subseteq lost'
      <4>1. CASE Exists(fh, 0)
        BY <1>1, <1>6, <2>2, <4>1 DEF Stored
      <4>2. CASE ~Exists(fh, 0)
        BY <4>2, IdsOfParts DEF Stored
      <4> QED
        BY <4>1, <4>2
    <3> QED
      BY <1>6, <2>2, <3>1
  <2> QED
    BY <1>5, <2>1, <2>2
<1>9. Held(fh, pending) \subseteq Held(fh', pending') \cup lost'
  <2>1. Ids(pending) \subseteq lost'
    BY <1>1
  <2> QED
    BY <1>1, <1>8, <2>1, WithoutPending
<1> QED
  BY <1>1, <1>3, <1>5, <1>6, <1>7, <1>9, QuietStep

(* A message that waits is the only one.                                   *)
LEMMA OneWaits ==
  ASSUME NEW p \in Seq(Logged), Len(p) <= 1, p # <<>>
  PROVE  p = <<p[1]>> /\ p[1] \in Logged
<1>1. PICK l : l = Len(p)
  OBVIOUS
<1>2. l \in Nat /\ l # 0 /\ l <= 1
  BY <1>1, EmptySeq
<1>3. l = 1
  BY <1>2
<1>4. Len(p) = 1
  BY <1>1, <1>3
<1> QED
  BY <1>4

(* When the loop is over the log file is free, or it is also the oldest.   *)
LEMMA LogFileIsFree ==
  ASSUME RotatingInv, pc = "rotate", index = 0
  PROVE  Ids(Stored(fh, 0)) \subseteq Ids(Stored(fh, MaxFiles))
<1>1. CASE MaxFiles = 0
  BY <1>1
<1>2. CASE MaxFiles # 0
  <2>1. ~Exists(fh, 0)
    BY <1>2, RotatingFacts, RotatingFileAssumption DEF StepInv
  <2> QED
    BY <2>1, IdsOfParts DEF Stored
<1> QED
  BY <1>1, <1>2

(* The new log file, and the message in it.                                *)
LEMMA ReopenStep ==
  ASSUME RotatingInv, Reopen
  PROVE  KeptByStep
<1>1. /\ pc = "rotate" /\ index = 0 /\ nextId' = nextId /\ index' = index /\ pc' = "idle"
      /\ pending' = <<>>
      /\ fh' = LET h == Opened(fh, 0, TRUE)
               IN  IF pending = <<>> THEN h ELSE Written(h, pending[1])
  BY DEF Reopen
<1>2. ~fh.isOpen /\ index \in Files /\ <<>> \in Seq(Logged)
  BY <1>1, RotatingFacts DEF StepInv
<1>3. PICK g : g = Opened(fh, 0, TRUE)
  OBVIOUS
<1>4. /\ LogFileInv(g) /\ g.buffer = <<>> /\ InOrder(g, pending)
      /\ Held(g, pending) \subseteq Held(fh, pending)
      /\ Held(fh, pending) \subseteq Held(g, pending) \cup Ids(Stored(fh, 0))
  BY <1>2, <1>3, RotatingFacts, OpenKeepsOrder
<1>5. g.isOpen
  BY <1>3, RotatingFacts, OpenedHelper DEF LogFileInv
<1>6. LogFileInv(fh') /\ InOrder(fh', <<>>) /\ Held(fh', <<>>) = Held(g, pending)
  <2>1. CASE pending = <<>>
    BY <1>1, <1>3, <1>4, <2>1
  <2>2. CASE pending # <<>>
    <3>1. PICK m, w : m = pending[1] /\ w = Written(g, m)
      OBVIOUS
    <3>2. pending = <<m>> /\ m \in Logged
      BY <2>2, <3>1, RotatingFacts, OneWaits DEF StepInv
    <3>3. /\ IsHelper(w) /\ w.dir = g.dir /\ w.filename = g.filename
          /\ w.unlinked = g.unlinked /\ w.buffer = Append(g.buffer, m)
          /\ \A n : Stored(w, n) = Stored(g, n)
      <4>1. IsHelper(g) /\ m \in Logged
        BY <1>4, <3>2 DEF LogFileInv
      <4>2. /\ IsHelper(w) /\ w.dir = g.dir /\ w.filename = g.filename
            /\ w.unlinked = g.unlinked
            /\ \A n : Stored(w, n) = Stored(g, n)
        BY <3>1, <4>1, WrittenHelper
      <4>3. w.buffer = IF g.isOpen THEN Append(g.buffer, m) ELSE g.buffer
        BY <3>1, <4>1, WrittenHelper
      <4> QED
        BY <1>5, <4>2, <4>3
    <3>4. LogFileInv(w)
      BY <1>4, <3>3 DEF LogFileInv
    <3>5. w.buffer \o <<>> = g.buffer \o pending /\ IsHelper(g)
      BY <1>4, <3>2, <3>3 DEF LogFileInv
    <3>6. View(w) = View(g)
      BY <3>3 DEF View
    <3>7. InOrder(w, <<>>) /\ Held(w, <<>>) = Held(g, pending)
      BY <1>2, <1>4, <3>3, <3>5, <3>6, RotatingFacts, OrderIsOfTheView
    <3> QED
      BY <1>1, <1>3, <2>2, <3>1, <3>4, <3>7
  <2> QED
    BY <2>1, <2>2
<1>7. StepInv'
  BY <1>1, <1>2 DEF StepInv
<1> QED
  BY <1>1, <1>4, <1>6, <1>7, LogFileIsFree, QuietStep

(* The new log file cannot be opened, and the message is lost.             *)
LEMMA ReopenFailsStep ==
  ASSUME RotatingInv, ReopenFails
  PROVE  KeptByStep
<1>1. /\ pc = "rotate" /\ index = 0 /\ nextId' = nextId /\ index' = index
      /\ pc' \in {"down", "idle"} /\ pending' = <<>> /\ (why # "open" => pc' = "idle")
      /\ \/ fh' \in NotOpened(fh, 0, TRUE) /\ lost' = lost \cup Ids(pending)
         \/ WriteStops(Opened(fh, 0, TRUE), pending, {})
  BY DEF ReopenFails, Throw
<1>2. ~fh.isOpen /\ index \in Files /\ <<>> \in Seq(Logged) /\ fh.buffer = <<>>
  BY <1>1, RotatingFacts DEF StepInv, LogFileInv, IsHelper
<1>3. CASE fh' \in NotOpened(fh, 0, TRUE) /\ lost' = lost \cup Ids(pending)
  <2>1. InOrder(fh, <<>>) /\ Held(fh, <<>>) \subseteq Held(fh, pending)
    <3>1. /\ \A n \in Files : Stored(fh, n) \in {Stored(fh, n), <<>>}
          /\ fh.buffer \o <<>> \in {fh.buffer \o pending, <<>>} /\ IsHelper(fh)
      BY <1>2, RotatingFacts DEF LogFileInv
    <3> QED
      BY <1>2, <3>1, RotatingFacts, WithoutKeepsOrder
  <2>2. PICK g : g = fh' /\ g \in NotOpened(fh, 0, TRUE)
    BY <1>3
  <2>3. /\ LogFileInv(g) /\ InOrder(g, <<>>) /\ Held(g, <<>>) \subseteq Held(fh, <<>>)
        /\ Held(fh, <<>>) \subseteq Held(g, <<>>) \cup Ids(Stored(fh, 0))
    BY <1>2, <2>1, <2>2, RotatingFacts, OpenKeepsOrder
  <2>4. ~g.isOpen
    BY <2>2, RotatingFacts, NotOpenedHelper DEF LogFileInv
  <2>5. StepInv'
    BY <1>1, <1>2, <2>2, <2>4 DEF StepInv
  <2> QED
    BY <1>1, <1>3, <2>1, <2>2, <2>3, <2>5, LogFileIsFree, WithoutPending, QuietStep
<1>4. CASE WriteStops(Opened(fh, 0, TRUE), pending, {})
  <2>1. PICK g, t : g = Opened(fh, 0, TRUE) /\ t = pending
    OBVIOUS
  <2>2. /\ LogFileInv(g) /\ g.buffer = <<>> /\ InOrder(g, t)
        /\ Held(g, t) \subseteq Held(fh, pending)
        /\ Held(fh, pending) \subseteq Held(g, t) \cup Ids(Stored(fh, 0))
    BY <1>2, <2>1, RotatingFacts, OpenKeepsOrder
  <2>3. g.isOpen
    BY <2>1, RotatingFacts, OpenedHelper DEF LogFileInv
  <2>4. t \in Seq(Logged) /\ g.buffer \o t = t /\ IsHelper(g)
    <3>1. t \in Seq(Logged)
      BY <2>1, RotatingFacts
    <3> QED
      BY <2>2, <3>1 DEF LogFileInv
  <2>5. Ordered(View(g), t) /\ Held(g, t) = HeldIn(View(g), t)
    BY <2>2, <2>4, OrderIsOfTheView
  <2>6. WriteStops(g, t, {})
    BY <1>4, <2>1
  <2>7. /\ LogFileInv(fh') /\ fh'.isOpen /\ InOrder(fh', <<>>)
        /\ Held(fh', <<>>) \subseteq HeldIn(View(g), t)
        /\ HeldIn(View(g), t) \subseteq Held(fh', <<>>) \cup lost'
    BY <2>2, <2>3, <2>4, <2>5, <2>6, StopsInOrder
  <2>8. t # <<>> /\ pc' = "idle"
    <3>1. t # <<>>
      BY <2>4, <2>6, StopsNeedMessages
    <3>2. why # "open"
      BY <2>1, <3>1, RotatingFacts DEF StepInv
    <3> QED
      BY <1>1, <3>1, <3>2
  <2>9. StepInv'
    BY <1>1, <1>2, <2>8 DEF StepInv
  <2> QED
    BY <1>1, <2>2, <2>5, <2>7, <2>9, LogFileIsFree, QuietStep
<1> QED
  BY <1>1, <1>3, <1>4

(* The process dies with what is not in a file.                            *)
LEMMA CrashStep ==
  ASSUME RotatingInv, Crash
  PROVE  KeptByStep
<1>1. /\ pc' = "down" /\ nextId' = nextId /\ index' = index /\ pending' = <<>>
      /\ fh' = Crashed(fh) /\ lost' = lost \cup Ids(fh.buffer) \cup Ids(pending)
  BY DEF Crash
<1>2. PICK g : g = Crashed(fh)
  OBVIOUS
<1>3. /\ IsHelper(g) /\ g.filename = 0 /\ ~g.isOpen /\ g.buffer = <<>> /\ ~g.unlinked
      /\ DOMAIN g.dir = DOMAIN fh.dir /\ \A n : Stored(g, n) = Stored(fh, n)
  BY <1>2, RotatingFacts, CrashedHelper DEF LogFileInv
<1>4. LogFileInv(g) /\ <<>> \in Seq(Logged) /\ IsHelper(fh)
  BY <1>3, RotatingFacts DEF LogFileInv
<1>5. InOrder(g, <<>>) /\ Held(g, <<>>) \subseteq Held(fh, pending)
  <2>1. /\ \A n \in Files : Stored(g, n) \in {Stored(fh, n), <<>>}
        /\ g.buffer \o <<>> \in {fh.buffer \o pending, <<>>}
    BY <1>3
  <2> QED
    BY <1>3, <1>4, <2>1, RotatingFacts, WithoutKeepsOrder
<1>6. StepInv'
  BY <1>1, <1>2, <1>3, <1>4, RotatingFacts DEF StepInv
<1>7. Held(fh, pending) \subseteq Held(g, <<>>) \cup lost'
  BY <1>1, <1>3, HeldIs
<1> QED
  BY <1>1, <1>2, <1>4, <1>5, <1>6, <1>7, QuietStep
----------------------------------------------------------------------------
(* Every step of the rotating sink, and the step that changes nothing.     *)
LEMMA RotatingStep ==
  ASSUME RotatingInv, [RotatingNext]_<<fileVars, rotatingVars>>
  PROVE  KeptByStep
<1>1. CASE \E rotateOnOpen \in BOOLEAN : OpenSink(rotateOnOpen)
  BY <1>1, OpenSinkStep
<1>2. CASE OpenSinkFails
  BY <1>2, OpenSinkFailsStep
<1>3. CASE \E size \in MessageSizes :
             LogPlain(size) \/ LogFails(size) \/ LogRotates(size) \/ LogThrows(size)
  BY <1>3, LogPlainStep, LogFailsStep, LogRotatesStep, LogThrowsStep
<1>4. CASE RotateNow
  BY <1>4, RotateNowStep
<1>5. CASE FlushSink \/ DestroySink
  BY <1>5, FlushOrDestroyStep
<1>6. CASE SkipMissing
  BY <1>6, SkipMissingStep
<1>7. CASE RemoveTarget
  BY <1>7, RemoveTargetStep
<1>8. CASE Rename
  BY <1>8, RenameStep
<1>9. CASE RenameFails
  BY <1>9, RenameFailsStep
<1>10. CASE Reopen
  BY <1>10, ReopenStep
<1>11. CASE ReopenFails
  BY <1>11, ReopenFailsStep
<1>12. CASE Crash
  BY <1>12, CrashStep
<1>13. CASE UNCHANGED <<fileVars, rotatingVars>>
  BY <1>13, StutterStep DEF fileVars, rotatingVars
<1>14. CASE FlushFails
  BY <1>14, FlushFailsStep
<1> QED
  BY <1>1, <1>2, <1>3, <1>4, <1>5, <1>6, <1>7, <1>8, <1>9, <1>10, <1>11, <1>12, <1>13, <1>14
     DEF RotatingNext

(* There is no file at first.                                              *)
LEMMA RotatingInitially ==
  ASSUME RotatingInit
  PROVE  RotatingInv
<1>1. /\ fh = [dir |-> [n \in {} |-> <<>>], filename |-> 0, isOpen |-> FALSE,
               buffer |-> <<>>, unlinked |-> FALSE]
      /\ pc = "down" /\ index = 0 /\ pending = <<>> /\ nextId = 1
  BY DEF RotatingInit, FileInit, NewHelper
<1>2. PICK d : d = [n \in {} |-> <<>>]
  OBVIOUS
<1>3. DOMAIN d = {} /\ d \in [{} -> Seq(Logged)]
  BY <1>2
<1>4. /\ fh = [dir |-> d, filename |-> 0, isOpen |-> FALSE, buffer |-> <<>>, unlinked |-> FALSE]
      /\ fh.dir = d /\ fh.filename = 0 /\ ~fh.isOpen /\ fh.buffer = <<>> /\ ~fh.unlinked
  BY <1>1, <1>2
<1>5. IsRecord(fh)
  BY <1>3, <1>4 DEF IsRecord
<1>6. LogFileInv(fh)
  BY <1>3, <1>4, <1>5 DEF LogFileInv, IsHelper
<1>7. StepInv
  BY <1>1, <1>4, RotatingFileAssumption DEF StepInv, Files
<1>8. \A n : Stored(fh, n) = <<>>
  BY <1>3, <1>4 DEF Stored, Exists
<1>9. \A id : id \notin Held(fh, pending)
  BY <1>1, <1>4, <1>8, HeldIs, IdsOfParts
<1>10. InOrder(fh, pending)
  <2>1. \A s : Before(<<>>, s)
    BY DEF Before
  <2>2. fh.buffer \o pending = <<>>
    BY <1>1, <1>4
  <2> QED
    BY <1>8, <2>1, <2>2, IncreasingParts DEF InOrder
<1> QED
  BY <1>1, <1>6, <1>7, <1>9, <1>10 DEF RotatingInv, FilesAreInOrder

(***************************************************************************)
(* The invariant of the rotating sink, for every number of files, messages,*)
(* failing calls and crashes.                                              *)
(***************************************************************************)
THEOREM RotatingInvariance == RotatingSpec => []RotatingInv
<1>1. RotatingInit => RotatingInv
  BY RotatingInitially
<1>2. RotatingInv /\ [RotatingNext]_<<fileVars, rotatingVars>> => RotatingInv'
  BY RotatingStep DEF KeptByStep
<1> QED
  BY <1>1, <1>2, PTL DEF RotatingSpec

(***************************************************************************)
(* Read from the oldest file to the newest, the messages are in the order  *)
(* in which they were logged, none twice, whatever failed or died in the   *)
(* middle of a rotation (rotating_file_sink-inl.h:138-176).                *)
(***************************************************************************)
THEOREM FilesAlwaysInOrder == RotatingSpec => []FilesAreInOrder
<1>1. RotatingInv => FilesAreInOrder
  BY DEF RotatingInv
<1> QED
  BY <1>1, RotatingInvariance, PTL

(***************************************************************************)
(* A rotation lets go of the oldest file only (rotating_file_sink-inl.h    *)
(* :143-165).                                                              *)
(***************************************************************************)
THEOREM OnlyTheOldestEverDropped == RotatingSpec => OnlyTheOldestAreDropped
<1>1. RotatingInv /\ [RotatingNext]_<<fileVars, rotatingVars>> =>
        [Held(fh, pending) \subseteq Held(fh', pending') \cup lost' \cup Ids(Stored(fh, MaxFiles))
          ]_<<fileVars, rotatingVars>>
  BY RotatingStep DEF KeptByStep
<1> QED
  BY <1>1, RotatingInvariance, PTL DEF RotatingSpec, OnlyTheOldestAreDropped
----------------------------------------------------------------------------
(* The sizes of the files of the rotating sink. *)

(* The log file with what is still to be written to it.                    *)
LogFile(h) == Stored(h, 0) \o h.buffer

AllFit(h) == Fits(LogFile(h)) /\ \A n \in Files : Fits(Stored(h, n))

(***************************************************************************)
(* What FilesAreBounded rests on: whether a file fits has to be known of   *)
(* all of them at every step of a rotation, since any of them may be the   *)
(* one that is opened next, and what the rotation is for decides what      *)
(* current_size_ is after it.                                              *)
(***************************************************************************)
SizeInv ==
  /\ AllFit(fh) /\ currentSize \in Nat
  /\ pc = "idle" /\ fh.isOpen => WholeSize(LogFile(fh)) <= currentSize
  /\ pc \in {"rotate", "rename"} =>
       why \in {"log", "hand", "open"} /\ (why = "log" <=> pending # <<>>)

(* The limits are numbers, and no message is empty.                        *)
LEMMA SizesAreNumbers ==
  MaxSize \in Nat /\ MaxFiles \in Nat /\ \A size \in MessageSizes : size \in Nat /\ size # 0
  BY RotatingFileAssumption

(* An empty file, and a file of one message, fit.                          *)
LEMMA SmallFit ==
  Fits(<<>>) /\ \A m \in Logged : Fits(<<m>>)
<1>1. WholeSize(<<>>) <= MaxSize
  BY SizeOfParts, SizesAreNumbers
<1> QED
  BY <1>1 DEF Fits

(* The files of a helper are sequences of messages.                        *)
LEMMA FilesOfHelper ==
  ASSUME NEW h, IsHelper(h)
  PROVE  /\ h.buffer \in Seq(Logged) /\ LogFile(h) \in Seq(Logged)
         /\ \A n : Stored(h, n) \in Seq(Logged) /\ Stored(h, n) \o <<>> = Stored(h, n)
<1>1. h.buffer \in Seq(Logged) /\ \A n \in DOMAIN h.dir : h.dir[n] \in Seq(Logged)
  BY DEF IsHelper, IsRecord
<1>2. \A n : Stored(h, n) \in Seq(Logged)
  BY <1>1 DEF Stored, Exists
<1> QED
  BY <1>1, <1>2 DEF LogFile

(* Flushing, and closing, writes what was to be written.                   *)
LEMMA FlushFits ==
  ASSUME NEW h, LogFileInv(h), NEW g \in {Flushed(h), Closed(h)}, AllFit(h)
  PROVE  AllFit(g) /\ LogFile(g) = LogFile(h) /\ Stored(g, 0) = LogFile(h)
<1>1. IsHelper(h) /\ h.filename = 0 /\ ~h.unlinked
  BY DEF LogFileInv
<1>2. IsHelper(g) /\ g.buffer = <<>> /\ \A n : Stored(g, n) = Stored(Flushed(h), n)
  BY <1>1, FlushedHelper, ClosedHelper
<1>3. \A n : Stored(g, n) = IF h.isOpen /\ n = 0 THEN Stored(h, n) \o h.buffer ELSE Stored(h, n)
  BY <1>1, <1>2, FlushedHelper
<1>4. Stored(g, 0) = LogFile(h)
  <2>1. CASE h.isOpen
    BY <1>3, <2>1 DEF LogFile
  <2>2. CASE ~h.isOpen
    <3>1. h.buffer = <<>> /\ Stored(g, 0) = Stored(h, 0)
      BY <1>1, <1>3, <2>2 DEF IsHelper
    <3> QED
      BY <1>1, <3>1, FilesOfHelper DEF LogFile
  <2> QED
    BY <2>1, <2>2
<1>5. LogFile(g) = LogFile(h)
  <2>1. LogFile(g) = Stored(g, 0)
    BY <1>2, FilesOfHelper DEF LogFile
  <2> QED
    BY <1>4, <2>1
<1>6. \A n \in Files : Fits(Stored(g, n))
  <2>1. ASSUME NEW n \in Files PROVE Fits(Stored(g, n))
    <3>1. CASE n = 0
      BY <1>4, <3>1 DEF AllFit
    <3>2. CASE n # 0
      BY <1>3, <3>2 DEF AllFit
    <3> QED
      BY <3>1, <3>2
  <2> QED
    BY <2>1
<1> QED
  BY <1>4, <1>5, <1>6 DEF AllFit

(* Files that are left as they were or emptied fit as before.              *)
LEMMA EmptiedFit ==
  ASSUME NEW h, NEW g, IsHelper(h), IsHelper(g), h.buffer = <<>>, g.buffer = <<>>, AllFit(h),
         \A n : \/ Stored(g, n) = <<>>
                \/ \E k \in Files : Stored(g, n) = Stored(h, k)
  PROVE  AllFit(g) /\ LogFile(g) = Stored(g, 0)
<1>1. \A n : Fits(Stored(g, n))
  BY SmallFit DEF AllFit
<1>2. LogFile(g) = Stored(g, 0)
  BY FilesOfHelper DEF LogFile
<1> QED
  BY <1>1, <1>2 DEF AllFit

(* Opening the log file, or trying to.                                     *)
LEMMA OpenFits ==
  ASSUME NEW h, LogFileInv(h), ~h.isOpen, NEW truncate \in BOOLEAN, AllFit(h),
         NEW g \in {Opened(h, 0, truncate)} \cup NotOpened(h, 0, truncate)
  PROVE  /\ LogFileInv(g) /\ AllFit(g) /\ LogFile(g) = Stored(g, 0)
         /\ truncate /\ g.isOpen => LogFile(g) = <<>>
         /\ g.isOpen <=> g = Opened(h, 0, truncate)
<1>1. IsHelper(h) /\ h.buffer = <<>> /\ h.filename = 0 /\ 0 \in Nat /\ 0 \in Files
  BY SizesAreNumbers DEF LogFileInv, IsHelper, Files
<1>2. \A n : Stored(Closed(h), n) = Stored(h, n)
  BY <1>1, FlushedHelper, ClosedHelper
<1>3. /\ IsHelper(g) /\ g.buffer = <<>> /\ g.filename = 0 /\ ~g.unlinked
      /\ DOMAIN g.dir \in {DOMAIN h.dir, DOMAIN h.dir \cup {0}}
      /\ \A n : Stored(g, n) \in {<<>>, Stored(h, n)}
      /\ truncate /\ g.isOpen => Stored(g, 0) = <<>>
      /\ g.isOpen <=> g = Opened(h, 0, truncate)
  <2>1. CASE g = Opened(h, 0, truncate)
    <3>1. /\ IsHelper(g) /\ g.filename = 0 /\ g.isOpen /\ ~g.unlinked /\ g.buffer = <<>>
          /\ DOMAIN g.dir = DOMAIN h.dir \cup {0}
          /\ \A n : Stored(g, n) = IF truncate /\ n = 0 THEN <<>> ELSE Stored(Closed(h), n)
      BY <1>1, <2>1, OpenedHelper
    <3> QED
      BY <1>2, <2>1, <3>1
  <2>2. CASE g \in NotOpened(h, 0, truncate)
    <3>1. /\ IsHelper(g) /\ g.filename = 0 /\ ~g.isOpen /\ ~g.unlinked /\ g.buffer = <<>>
          /\ \/ /\ DOMAIN g.dir = DOMAIN h.dir
                /\ \A n : Stored(g, n) = Stored(Closed(h), n)
             \/ /\ truncate /\ DOMAIN g.dir = DOMAIN h.dir \cup {0}
                /\ \A n : Stored(g, n) = IF n = 0 THEN <<>> ELSE Stored(Closed(h), n)
      BY <1>1, <2>2, NotOpenedHelper
    <3>2. g # Opened(h, 0, truncate)
      <4>1. PICK o : o = Opened(h, 0, truncate)
        OBVIOUS
      <4>2. o.isOpen
        BY <1>1, <4>1, OpenedHelper
      <4> QED
        BY <3>1, <4>1, <4>2
    <3> QED
      BY <1>2, <3>1, <3>2
  <2> QED
    BY <2>1, <2>2
<1>4. \A n : Stored(h, n) = <<>> \/ n \in Files
  BY DEF LogFileInv, Stored, Exists
<1>5. \A n : Stored(g, n) = <<>> \/ \E k \in Files : Stored(g, n) = Stored(h, k)
  BY <1>3, <1>4
<1>6. AllFit(g) /\ LogFile(g) = Stored(g, 0)
  BY <1>1, <1>3, <1>5, EmptiedFit
<1>7. LogFileInv(g)
  BY <1>1, <1>3 DEF LogFileInv
<1> QED
  BY <1>3, <1>6, <1>7

(* A message written to the open file.                                     *)
LEMMA WriteFits ==
  ASSUME NEW h, IsHelper(h), h.isOpen, AllFit(h), NEW m \in Logged,
         WholeSize(LogFile(h)) + m.size <= MaxSize \/ LogFile(h) = <<>>
  PROVE  /\ AllFit(Written(h, m))
         /\ WholeSize(LogFile(Written(h, m))) <= WholeSize(LogFile(h)) + m.size
         /\ WholeSize(LogFile(Written(h, m))) \in Nat
<1>1. PICK g : g = Written(h, m)
  OBVIOUS
<1>2. /\ g.buffer = Append(h.buffer, m) /\ \A n : Stored(g, n) = Stored(h, n)
  <2>1. g.buffer = IF h.isOpen THEN Append(h.buffer, m) ELSE h.buffer
    BY <1>1, WrittenHelper
  <2>2. \A n : Stored(g, n) = Stored(h, n)
    BY <1>1, WrittenHelper
  <2> QED
    BY <2>1, <2>2
<1>3. PICK s, b, f : s = Stored(h, 0) /\ b = h.buffer /\ f = LogFile(h)
  OBVIOUS
<1>4. s \in Seq(Logged) /\ b \in Seq(Logged) /\ f = s \o b /\ f \in Seq(Logged)
  BY <1>3, FilesOfHelper DEF LogFile
<1>5. LogFile(g) = f \o <<m>>
  <2>1. LogFile(g) = s \o Append(b, m)
    BY <1>2, <1>3, Zenon DEF LogFile
  <2>2. s \o Append(b, m) = (s \o b) \o <<m>>
    BY <1>4
  <2> QED
    BY <1>4, <2>1, <2>2
<1>6. WholeSize(f \o <<m>>) <= WholeSize(f) + m.size /\ WholeSize(f \o <<m>>) \in Nat
  <2>1. PICK t : t = <<m>>
    OBVIOUS
  <2>2. t \in Seq(Logged) /\ WholeSize(t) \in Nat /\ WholeSize(t) <= m.size
    <3>1. t \in Seq(Logged) /\ WholeSize(t) = IF m.whole THEN m.size ELSE 0
      BY <2>1, SizeOfParts
    <3>2. m.size \in Nat
      BY DEF Logged
    <3> QED
      BY <3>1, <3>2
  <2>3. \A x, y \in Seq(Logged) : WholeSize(x \o y) = WholeSize(x) + WholeSize(y)
    BY SizeOfParts
  <2>4. WholeSize(f \o t) = WholeSize(f) + WholeSize(t) /\ WholeSize(f) \in Nat
    BY <1>4, <2>2, <2>3, SizeOfParts
  <2>5. m.size \in Nat
    BY DEF Logged
  <2> QED
    BY <2>1, <2>2, <2>4, <2>5
<1>7. Fits(f \o <<m>>)
  <2>1. CASE WholeSize(f) + m.size <= MaxSize
    <3>1. WholeSize(f) \in Nat /\ m.size \in Nat
      BY <1>4, SizeOfParts DEF Logged
    <3> QED
      BY <1>6, <2>1, <3>1, SizesAreNumbers DEF Fits
  <2>2. CASE f = <<>>
    <3>1. f \o <<m>> = <<m>>
      BY <2>2
    <3> QED
      BY <3>1, SmallFit
  <2> QED
    BY <1>3, <2>1, <2>2
<1> QED
  BY <1>1, <1>2, <1>3, <1>5, <1>6, <1>7 DEF AllFit

(* A file whose size is nothing is empty, and nothing waits for it.        *)
LEMMA EmptyLogFile ==
  ASSUME NEW h, LogFileInv(h), h.isOpen, AllFit(h), FileSize(Flushed(h)) = 0
  PROVE  LogFile(h) = <<>>
<1>1. PICK f : f = Flushed(h)
  OBVIOUS
<1>2. IsHelper(f) /\ f.isOpen /\ f.filename = 0 /\ ~f.unlinked
  BY <1>1, FlushedHelper DEF LogFileInv
<1>3. Stored(f, 0) = LogFile(h)
  BY <1>1, FlushFits
<1>4. FileSize(f) = SizeOf(Stored(f, 0))
  <2>1. Exists(f, 0)
    BY <1>2 DEF IsHelper
  <2> QED
    BY <1>2, <2>1 DEF FileSize, Stored
<1>5. Stored(f, 0) \in Seq(Logged) /\ SizeOf(Stored(f, 0)) = 0
  BY <1>1, <1>2, <1>4, FilesOfHelper
<1> QED
  BY <1>3, <1>5, SizeOfParts

(* A sequence that is not empty has a last message.                        *)
LEMMA LastOfMessages ==
  ASSUME NEW s \in Seq(Logged), s # <<>>
  PROVE  \E q \in Seq(Logged), x \in Logged : s = q \o <<x>> /\ x = s[Len(s)]
<1>1. PICK n : n = Len(s)
  OBVIOUS
<1>2. n \in Nat /\ n # 0
  BY <1>1, EmptySeq
<1>3. PICK q, x : q = SubSeq(s, 1, n - 1) /\ x = s[n]
  OBVIOUS
<1>4. /\ q \in Seq(Logged) /\ Len(q) = n - 1 /\ x \in Logged
      /\ \A k \in 1 .. n - 1 : q[k] = s[k]
  BY <1>1, <1>2, <1>3
<1>5. PICK u : u = q \o <<x>>
  OBVIOUS
<1>6. u \in Seq(Logged) /\ Len(u) = n
  BY <1>2, <1>4, <1>5
<1>7. ASSUME NEW k \in 1 .. n PROVE u[k] = s[k]
  <2>1. CASE k = n
    BY <1>2, <1>3, <1>4, <1>5, <2>1
  <2>2. CASE k # n
    <3>1. k \in 1 .. n - 1
      BY <1>2, <2>2
    <3> QED
      BY <1>2, <1>4, <1>5, <3>1
  <2> QED
    BY <2>1, <2>2
<1>8. u = s
  BY <1>1, <1>6, <1>7
<1> QED
  BY <1>1, <1>3, <1>4, <1>5, <1>8

(* What a write that stops leaves is no larger than what was there, of the *)
(* messages that are whole: of those it was given last, it has a piece.    *)
LEMMA PartFits ==
  ASSUME NEW s \in Seq(Logged), NEW b \in Seq(Logged), Fits(s \o b), NEW t \in Seq(Logged),
         NEW p \in Parts(t),
         t = b \/ (WholeSize(s \o b) <= MaxSize /\ \E m \in Logged : t = Append(b, m))
  PROVE  /\ Fits(s \o p) /\ WholeSize(s \o p) \in Nat
         /\ WholeSize(s \o p) <= WholeSize(s \o b)
<1>1. p \in Seq(Logged)
  BY PartIs
<1>2. PICK first, rest \in Seq(Logged) :
        t = first \o rest /\ rest # <<>> /\ WholeSize(p) = WholeSize(first)
  BY PartIs
<1>3. PICK sw, bw, fw, rw : /\ sw = WholeSize(s) /\ bw = WholeSize(b)
                            /\ fw = WholeSize(first) /\ rw = WholeSize(rest)
  OBVIOUS
<1>4. sw \in Nat /\ bw \in Nat /\ fw \in Nat /\ rw \in Nat /\ MaxSize \in Nat
  BY <1>2, <1>3, SizeOfParts, SizesAreNumbers
<1>5. /\ WholeSize(s \o p) = sw + fw /\ WholeSize(s \o b) = sw + bw
      /\ WholeSize(t) = fw + rw
  BY <1>1, <1>2, <1>3, SizeOfParts
<1>6. fw <= bw
  <2>1. CASE t = b
    BY <1>3, <1>4, <1>5, <2>1
  <2>2. CASE \E m \in Logged : t = Append(b, m)
    <3>1. PICK m \in Logged : t = Append(b, m)
      BY <2>2
    <3>2. PICK e : e = <<m>>
      OBVIOUS
    <3>3. e \in Seq(Logged) /\ t = b \o e /\ t[Len(t)] = m
      BY <3>1, <3>2
    <3>4. PICK q \in Seq(Logged), x \in Logged : rest = q \o <<x>> /\ x = rest[Len(rest)]
      BY <1>2, LastOfMessages
    <3>5. x = m
      <4>1. PICK n : n = Len(rest)
        OBVIOUS
      <4>2. n \in Nat /\ n # 0
        BY <1>2, <4>1, EmptySeq
      <4>3. Len(t) = Len(first) + n /\ Len(first) \in Nat
        BY <1>2, <4>1
      <4>4. t[Len(first) + n] = rest[n]
        BY <1>2, <4>1, <4>2, <4>3
      <4> QED
        BY <3>3, <3>4, <4>1, <4>3, <4>4
    <3>6. rest = q \o e
      BY <3>2, <3>4, <3>5
    <3>7. PICK qw, ew : qw = WholeSize(q) /\ ew = WholeSize(e)
      OBVIOUS
    <3>8. qw \in Nat /\ ew \in Nat /\ rw = qw + ew
      BY <1>3, <3>3, <3>6, <3>7, SizeOfParts
    <3>9. WholeSize(t) = bw + ew
      BY <1>3, <3>3, <3>7, SizeOfParts
    <3> QED
      BY <1>4, <1>5, <3>8, <3>9
  <2> QED
    BY <2>1, <2>2
<1>7. WholeSize(s \o p) \in Nat /\ WholeSize(s \o p) <= WholeSize(s \o b)
  BY <1>4, <1>5, <1>6
<1>8. Fits(s \o p)
  <2>1. CASE WholeSize(s \o b) <= MaxSize
    BY <1>4, <1>5, <1>6, <2>1 DEF Fits
  <2>2. CASE ~(WholeSize(s \o b) <= MaxSize)
    <3>1. Len(s \o b) = 1 /\ t = b
      BY <2>2 DEF Fits
    <3>2. PICK i, j, k : i = Len(s) /\ j = Len(first) /\ k = Len(rest)
      OBVIOUS
    <3>3. i \in Nat /\ j \in Nat /\ k \in Nat /\ k # 0
      BY <1>2, <3>2, EmptySeq
    <3>4. i + (j + k) = 1
      <4>1. Len(s \o b) = Len(s) + Len(b)
        BY Concatenated
      <4>2. Len(first \o rest) = Len(first) + Len(rest)
        BY <1>2, Concatenated
      <4> QED
        BY <1>2, <3>1, <3>2, <4>1, <4>2
    <3>5. i = 0 /\ j = 0
      BY <3>3, <3>4
    <3>6. s = <<>> /\ first = <<>>
      BY <3>2, <3>5, EmptySeq
    <3>7. sw = 0 /\ fw = 0
      BY <1>3, <3>6, SizeOfParts
    <3> QED
      BY <1>4, <1>5, <3>7 DEF Fits
  <2> QED
    BY <2>1, <2>2
<1> QED
  BY <1>7, <1>8

(* The log file after a write that stops.                                  *)
LEMMA StopFits ==
  ASSUME NEW h, LogFileInv(h), h.isOpen, AllFit(h), NEW t \in Seq(Logged), NEW next,
         WriteStops(h, t, next),
         \/ t = h.buffer
         \/ WholeSize(LogFile(h)) <= MaxSize /\ \E m \in Logged : t = Append(h.buffer, m)
  PROVE  /\ AllFit(fh') /\ WholeSize(LogFile(fh')) \in Nat
         /\ WholeSize(LogFile(fh')) <= WholeSize(LogFile(h))
<1>1. PICK p \in Parts(t) : fh' \in {[h EXCEPT !.buffer = p], Flushed([h EXCEPT !.buffer = p])}
  BY Zenon DEF WriteStops
<1>2. PICK left, g : left = [h EXCEPT !.buffer = p] /\ g = fh'
  OBVIOUS
<1>3. p \in Seq(Logged)
  BY PartIs
<1>4. /\ IsHelper(left) /\ left.dir = h.dir /\ left.filename = h.filename
      /\ left.unlinked = h.unlinked /\ left.buffer = p
      /\ \A n : Stored(left, n) = Stored(h, n)
  BY <1>2, <1>3, BufferedHelper DEF LogFileInv
<1>5. LogFileInv(left)
  BY <1>4 DEF LogFileInv
<1>6. PICK s, b : s = Stored(h, 0) /\ b = h.buffer
  OBVIOUS
<1>7. s \in Seq(Logged) /\ b \in Seq(Logged) /\ LogFile(h) = s \o b
  BY <1>6, FilesOfHelper DEF LogFileInv, LogFile
<1>8. LogFile(left) = s \o p
  BY <1>4, <1>6 DEF LogFile
<1>9. /\ Fits(s \o p) /\ WholeSize(s \o p) \in Nat
      /\ WholeSize(s \o p) <= WholeSize(s \o b)
  <2>1. Fits(s \o b)
    BY <1>7 DEF AllFit
  <2>2. t = b \/ (WholeSize(s \o b) <= MaxSize /\ \E m \in Logged : t = Append(b, m))
    BY <1>6, <1>7
  <2> QED
    BY <1>1, <1>7, <2>1, <2>2, PartFits
<1>10. AllFit(left)
  BY <1>4, <1>8, <1>9 DEF AllFit
<1>11. AllFit(g) /\ LogFile(g) = LogFile(left)
  <2>1. CASE g = left
    BY <1>10, <2>1
  <2>2. CASE g = Flushed(left)
    BY <1>5, <1>10, <2>2, FlushFits
  <2> QED
    BY <1>1, <1>2, <2>1, <2>2
<1> QED
  BY <1>2, <1>7, <1>8, <1>9, <1>11

(* The constructor.                                                        *)
LEMMA OpenSinkSizes ==
  ASSUME RotatingInv, SizeInv, NEW rotateOnOpen \in BOOLEAN, OpenSink(rotateOnOpen)
  PROVE  SizeInv'
<1>1. LogFileInv(fh) /\ ~fh.isOpen /\ AllFit(fh)
  BY RotatingFacts DEF OpenSink, StepInv, SizeInv
<1>2. PICK h : h = Opened(fh, 0, FALSE)
  OBVIOUS
<1>3. PICK truncate \in BOOLEAN : ~truncate
  OBVIOUS
<1>4. /\ AllFit(h) /\ LogFile(h) = Stored(h, 0)
      /\ LogFileInv(h) /\ h.isOpen /\ ~h.unlinked /\ h.filename = 0
  <2>1. h = Opened(fh, 0, truncate)
    BY <1>2, <1>3
  <2>2. AllFit(h) /\ LogFile(h) = Stored(h, 0) /\ LogFileInv(h) /\ h.isOpen
    BY <1>1, <2>1, OpenFits
  <2> QED
    BY <2>2 DEF LogFileInv
<1>5. /\ FileSize(h) \in Nat /\ WholeSize(LogFile(h)) \in Nat
      /\ WholeSize(LogFile(h)) <= FileSize(h)
  <2>1. Exists(h, 0)
    BY <1>4 DEF LogFileInv, IsHelper
  <2>2. Stored(h, 0) = h.dir[0]
    BY <2>1 DEF Stored
  <2>3. FileSize(h) = SizeOf(Stored(h, 0))
    BY <1>4, <2>2 DEF FileSize
  <2>4. Stored(h, 0) \in Seq(Logged)
    BY <1>4, FilesOfHelper DEF LogFileInv
  <2> QED
    BY <1>4, <2>3, <2>4, SizeOfParts
<1>6. currentSize' = FileSize(h)
  BY <1>2 DEF OpenSink, SizeAtOpen
<1>7. \/ BeginRotation(h, "open", <<>>)
      \/ fh' = h /\ pc' = "idle"
  BY <1>2 DEF OpenSink
<1>8. CASE BeginRotation(h, "open", <<>>)
  <2>1. fh' = Closed(h) /\ pc' = "rotate" /\ why' = "open" /\ pending' = <<>>
    BY <1>8 DEF BeginRotation
  <2>2. PICK c : c = Closed(h)
    OBVIOUS
  <2>3. AllFit(c)
    BY <1>4, <2>2, FlushFits
  <2> QED
    BY <1>5, <1>6, <2>1, <2>2, <2>3 DEF SizeInv
<1>9. CASE fh' = h /\ pc' = "idle"
  <2>1. WholeSize(LogFile(fh')) <= currentSize'
    BY <1>5, <1>6, <1>9
  <2> QED
    BY <1>4, <1>5, <1>6, <1>9, <2>1 DEF SizeInv
<1> QED
  BY <1>7, <1>8, <1>9

(* The constructor, or a rotation, fails.                                  *)
LEMMA FailureSizes ==
  ASSUME RotatingInv, SizeInv, OpenSinkFails \/ RenameFails \/ ReopenFails
  PROVE  SizeInv'
<1>1. LogFileInv(fh) /\ ~fh.isOpen /\ AllFit(fh) /\ currentSize \in Nat
  BY RotatingFacts DEF OpenSinkFails, RenameFails, ReopenFails, StepInv, SizeInv
<1>2. pc' \in {"down", "idle"}
  BY DEF OpenSinkFails, RenameFails, ReopenFails, Throw, rotatingVars
<1>3. ASSUME NEW truncate \in BOOLEAN, fh' \in NotOpened(fh, 0, truncate),
             currentSize' = currentSize
      PROVE  SizeInv'
  <2>1. PICK g : g = fh' /\ g \in NotOpened(fh, 0, truncate)
    BY <1>3
  <2>2. AllFit(g)
    BY <1>1, <2>1, OpenFits
  <2>3. ~g.isOpen
    BY <1>1, <2>1, NotOpenedHelper DEF LogFileInv
  <2> QED
    BY <1>1, <1>2, <1>3, <2>1, <2>2, <2>3 DEF SizeInv
<1>4. CASE OpenSinkFails
  BY <1>3, <1>4 DEF OpenSinkFails, rotatingVars
<1>5. CASE ReopenFails
  <2>1. /\ currentSize' = currentSize
        /\ fh' \in NotOpened(fh, 0, TRUE) \/ WriteStops(Opened(fh, 0, TRUE), pending, {})
    BY <1>5 DEF ReopenFails
  <2>2. CASE fh' \in NotOpened(fh, 0, TRUE)
    BY <1>3, <2>1, <2>2
  <2>3. CASE WriteStops(Opened(fh, 0, TRUE), pending, {})
    <3>1. PICK h, truncate : h = Opened(fh, 0, TRUE) /\ truncate = TRUE
      OBVIOUS
    <3>2. truncate \in BOOLEAN /\ h = Opened(fh, 0, truncate)
      BY <3>1
    <3>3. LogFileInv(h) /\ AllFit(h) /\ h.isOpen
      BY <1>1, <3>2, OpenFits
    <3>4. LogFile(h) = <<>>
      BY <1>1, <3>1, <3>2, <3>3, OpenFits
    <3>5. WholeSize(LogFile(h)) = 0
      BY <3>4, SizeOfParts
    <3>6. PICK t : t = pending
      OBVIOUS
    <3>7. t \in Seq(Logged) /\ Len(t) <= 1 /\ WriteStops(h, t, {})
      BY <2>3, <3>1, <3>6, RotatingFacts DEF StepInv
    <3>8. t # <<>>
      BY <3>7, StopsNeedMessages
    <3>9. \E m \in Logged : t = Append(h.buffer, m)
      <4>1. IsHelper(fh) /\ 0 \in Nat
        BY <1>1 DEF LogFileInv
      <4>0. h.buffer = <<>>
        BY <3>2, <4>1, OpenedHelper
      <4>2. PICK m : m = t[1]
        OBVIOUS
      <4>3. m \in Logged /\ t = <<m>>
        BY <3>7, <3>8, <4>2, OneWaits
      <4>4. Append(h.buffer, m) = <<m>>
        BY <4>0
      <4> QED
        BY <4>3, <4>4
    <3>10. /\ AllFit(fh') /\ WholeSize(LogFile(fh')) \in Nat
           /\ WholeSize(LogFile(fh')) <= WholeSize(LogFile(h))
      <4>1. WholeSize(LogFile(h)) <= MaxSize
        BY <3>5, SizesAreNumbers
      <4>2. PICK none : none = {}
        OBVIOUS
      <4>3. WriteStops(h, t, none)
        BY <3>7, <4>2
      <4> QED
        BY <3>3, <3>7, <3>9, <4>1, <4>3, StopFits
    <3>11. WholeSize(LogFile(fh')) <= currentSize'
      BY <1>1, <2>1, <3>5, <3>10
    <3> QED
      BY <1>1, <1>2, <2>1, <3>10, <3>11 DEF SizeInv
  <2> QED
    BY <2>1, <2>2, <2>3
<1>6. CASE RenameFails
  <2>1. PICK h : h = Opened(fh, 0, TRUE)
    OBVIOUS
  <2>2. \/ /\ fh' \in {h, Closed(h)} /\ currentSize' = 0
        \/ fh' \in NotOpened(fh, 0, TRUE) /\ currentSize' = currentSize
    BY <1>6, <2>1 DEF RenameFails
  <2>3. CASE fh' \in {h, Closed(h)} /\ currentSize' = 0
    <3>1. PICK truncate \in BOOLEAN : truncate
      OBVIOUS
    <3>2. h = Opened(fh, 0, truncate)
      BY <2>1, <3>1
    <3>3. LogFileInv(h) /\ AllFit(h) /\ h.isOpen
      BY <1>1, <3>2, OpenFits
    <3>4. LogFile(h) = <<>>
      BY <1>1, <3>1, <3>2, <3>3, OpenFits
    <3>5. PICK g : g = fh' /\ g \in {h, Closed(h)}
      BY <2>3
    <3>6. AllFit(g) /\ LogFile(g) = <<>>
      BY <3>3, <3>4, <3>5, FlushFits
    <3>7. WholeSize(LogFile(g)) <= 0
      BY <3>6, SizeOfParts
    <3> QED
      BY <1>2, <2>3, <3>5, <3>6, <3>7 DEF SizeInv
  <2>4. CASE fh' \in NotOpened(fh, 0, TRUE) /\ currentSize' = currentSize
    BY <1>3, <2>4
  <2> QED
    BY <2>2, <2>3, <2>4
<1> QED
  BY <1>4, <1>5, <1>6

(* A message that no rotation is needed for: there is room for it, or the  *)
(* file is empty.                                                          *)
LEMMA LogPlainSizes ==
  ASSUME RotatingInv, SizeInv, NEW size \in MessageSizes, LogPlain(size)
  PROVE  SizeInv'
<1>1. PICK m : m = Message(size, 0)
  OBVIOUS
<1>2. m \in Logged /\ m.size = size /\ size \in Nat
  BY <1>1, NewMessage, SizesAreNumbers DEF Message
<1>3. /\ LogFileInv(fh) /\ IsHelper(fh) /\ AllFit(fh) /\ currentSize \in Nat /\ MaxSize \in Nat
      /\ pc = "idle" /\ pc' = "idle" /\ currentSize' = currentSize + size
      /\ fh.isOpen => WholeSize(LogFile(fh)) <= currentSize
  BY RotatingFacts, SizesAreNumbers DEF LogPlain, LogCall, SizeInv, LogFileInv
<1>4. currentSize' \in Nat
  BY <1>2, <1>3
<1>5. PICK w : w = Written(fh, m)
  OBVIOUS
<1>6. \/ currentSize + size <= MaxSize /\ fh' \in {w, Flushed(w)}
      \/ /\ fh.isOpen /\ FileSize(Flushed(fh)) = 0
         /\ fh' = Written(Flushed(fh), m)
  BY <1>1, <1>5 DEF LogPlain
<1>7. CASE currentSize + size <= MaxSize /\ fh' \in {w, Flushed(w)}
  <2>1. LogFileInv(w)
    BY <1>2, <1>3, <1>5, WrittenHelper DEF LogFileInv
  <2>2. CASE fh.isOpen
    <3>1. WholeSize(LogFile(fh)) \in Nat
      BY <1>3, FilesOfHelper, SizeOfParts
    <3>2. WholeSize(LogFile(fh)) + m.size <= MaxSize
      BY <1>2, <1>3, <1>7, <2>2, <3>1
    <3>3. /\ AllFit(w) /\ WholeSize(LogFile(w)) \in Nat
          /\ WholeSize(LogFile(w)) <= WholeSize(LogFile(fh)) + m.size
      BY <1>2, <1>3, <1>5, <2>2, <3>2, WriteFits
    <3>4. WholeSize(LogFile(w)) <= currentSize'
      BY <1>2, <1>3, <2>2, <3>1, <3>3
    <3>5. PICK g : g = fh' /\ g \in {w, Flushed(w)}
      BY <1>7
    <3>6. AllFit(g) /\ LogFile(g) = LogFile(w)
      BY <2>1, <3>3, <3>5, FlushFits
    <3> QED
      BY <1>3, <1>4, <3>4, <3>5, <3>6 DEF SizeInv
  <2>3. CASE ~fh.isOpen
    <3>1. w = fh
      BY <1>5, <2>3 DEF Written
    <3>2. PICK g : g = fh' /\ g \in {w, Flushed(w)}
      BY <1>7
    <3>3. AllFit(g) /\ ~g.isOpen
      BY <1>3, <2>3, <3>1, <3>2, FlushFits, FlushedHelper
    <3> QED
      BY <1>3, <1>4, <3>2, <3>3 DEF SizeInv
  <2> QED
    BY <2>2, <2>3
<1>8. CASE fh.isOpen /\ FileSize(Flushed(fh)) = 0 /\ fh' = Written(Flushed(fh), m)
  <2>1. PICK f : f = Flushed(fh)
    OBVIOUS
  <2>2. IsHelper(f) /\ f.isOpen /\ f.filename = 0 /\ ~f.unlinked
    BY <1>3, <1>8, <2>1, FlushedHelper DEF LogFileInv
  <2>3. AllFit(f) /\ LogFile(f) = Stored(f, 0)
    <3>1. AllFit(f) /\ LogFile(f) = LogFile(fh) /\ Stored(f, 0) = LogFile(fh)
      BY <1>3, <2>1, FlushFits
    <3> QED
      BY <3>1
  <2>4. LogFile(f) = <<>>
    BY <1>3, <1>8, <2>1, FlushFits, EmptyLogFile
  <2>5. PICK g : g = Written(f, m)
    OBVIOUS
  <2>6. /\ AllFit(g) /\ WholeSize(LogFile(g)) \in Nat
        /\ WholeSize(LogFile(g)) <= WholeSize(LogFile(f)) + m.size
    BY <1>2, <2>2, <2>3, <2>4, <2>5, WriteFits
  <2>7. WholeSize(LogFile(f)) = 0
    BY <2>4, SizeOfParts
  <2>8. WholeSize(LogFile(g)) <= currentSize'
    BY <1>2, <1>3, <2>6, <2>7
  <2>9. fh' = g
    BY <1>8, <2>1, <2>5
  <2> QED
    BY <1>3, <1>4, <2>6, <2>8, <2>9 DEF SizeInv
<1> QED
  BY <1>6, <1>7, <1>8

(* The file is closed, for a rotation or for good, or flushed, and perhaps *)
(* a message waits.                                                        *)
LEMMA CloseSizes ==
  ASSUME RotatingInv, SizeInv,
         \/ \E size \in MessageSizes : LogRotates(size)
         \/ RotateNow \/ FlushSink \/ DestroySink
  PROVE  SizeInv'
<1>1. LogFileInv(fh) /\ AllFit(fh) /\ currentSize \in Nat /\ pc = "idle"
  BY RotatingFacts DEF SizeInv, LogRotates, LogCall, RotateNow, FlushSink, DestroySink
<1>2. PICK f : f = Flushed(fh)
  OBVIOUS
<1>3. LogFileInv(f)
  BY <1>1, <1>2, FlushedHelper DEF LogFileInv
<1>4. AllFit(f) /\ LogFile(f) = LogFile(fh) /\ f.isOpen = fh.isOpen
  <2>1. AllFit(f) /\ LogFile(f) = LogFile(fh)
    BY <1>1, <1>2, FlushFits
  <2>2. f.isOpen = fh.isOpen
    BY <1>1, <1>2, FlushedHelper DEF LogFileInv
  <2> QED
    BY <2>1, <2>2
<1>5. PICK c, d : c = Closed(fh) /\ d = Closed(f)
  OBVIOUS
<1>6. AllFit(c) /\ AllFit(d)
  BY <1>1, <1>3, <1>4, <1>5, FlushFits
<1>7. CASE \E size \in MessageSizes : LogRotates(size)
  <2>1. /\ fh' = d /\ pc' = "rotate" /\ why' = "log" /\ currentSize' = currentSize
        /\ \E m : pending' = <<m>>
    BY <1>2, <1>5, <1>7 DEF LogRotates, BeginRotation
  <2>2. pending' # <<>>
    BY <2>1
  <2> QED
    BY <1>1, <1>6, <2>1, <2>2 DEF SizeInv
<1>8. CASE RotateNow
  <2>1. /\ fh' = c /\ pc' = "rotate" /\ why' = "hand" /\ pending' = <<>>
        /\ currentSize' = currentSize
    BY <1>5, <1>8 DEF RotateNow, BeginRotation
  <2> QED
    BY <1>1, <1>6, <2>1 DEF SizeInv
<1>9. CASE FlushSink
  <2>1. fh' = f /\ pc' = "idle" /\ currentSize' = currentSize
    BY <1>1, <1>2, <1>9 DEF FlushSink, rotatingVars
  <2> QED
    BY <1>1, <1>4, <2>1 DEF SizeInv
<1>10. CASE DestroySink
  <2>1. fh' = c /\ pc' = "down" /\ currentSize' = currentSize
    BY <1>5, <1>10 DEF DestroySink
  <2> QED
    BY <1>1, <1>6, <2>1 DEF SizeInv
<1> QED
  BY <1>7, <1>8, <1>9, <1>10

(* The steps of the loop only give files other names.                      *)
LEMMA LoopSizes ==
  ASSUME RotatingInv, SizeInv, SkipMissing \/ RemoveTarget \/ Rename
  PROVE  SizeInv'
<1>1. /\ LogFileInv(fh) /\ IsHelper(fh) /\ AllFit(fh) /\ currentSize \in Nat /\ ~fh.isOpen
      /\ fh.buffer = <<>> /\ index \in Files /\ index \in Nat
      /\ why \in {"log", "hand", "open"} /\ (why = "log" <=> pending # <<>>)
  BY RotatingFacts, SizesAreNumbers
     DEF SizeInv, SkipMissing, RemoveTarget, Rename, StepInv, LogFileInv, IsHelper, Files
<1>2. /\ currentSize' = currentSize /\ why' = why /\ pending' = pending
      /\ pc' \in {"rotate", "rename"}
  BY DEF SkipMissing, RemoveTarget, Rename
<1>3. AllFit(fh')
  <2>1. CASE SkipMissing
    BY <1>1, <2>1 DEF SkipMissing, fileVars
  <2>2. \A n : Stored(fh, n) = <<>> \/ n \in Files
    BY <1>1 DEF LogFileInv, Stored, Exists
  <2>3. CASE RemoveTarget
    <3>1. PICK g, k : g = Removed(fh, k) /\ k = index
      OBVIOUS
    <3>2. /\ IsHelper(g) /\ g.buffer = <<>>
          /\ \A n : Stored(g, n) = IF n = k THEN <<>> ELSE Stored(fh, n)
      BY <1>1, <3>1, RemovedHelper
    <3>3. \A n : Stored(g, n) = <<>> \/ \E i \in Files : Stored(g, n) = Stored(fh, i)
      BY <2>2, <3>2
    <3>4. AllFit(g)
      BY <1>1, <3>2, <3>3, EmptiedFit
    <3> QED
      BY <2>3, <3>1, <3>4 DEF RemoveTarget
  <2>4. CASE Rename
    <3>1. PICK g, k, j : g = Renamed(fh, j, k) /\ k = index /\ j = index - 1
      OBVIOUS
    <3>2. k \in Nat /\ j \in DOMAIN fh.dir /\ j \in Files
      <4>1. Exists(fh, index - 1)
        BY <2>4, RotatingFacts DEF Rename, StepInv
      <4> QED
        BY <1>1, <3>1, <4>1 DEF Exists, LogFileInv
    <3>3. /\ IsHelper(g) /\ g.buffer = <<>>
          /\ \A n : Stored(g, n) = IF n = k THEN Stored(fh, j)
                                   ELSE IF n = j THEN <<>> ELSE Stored(fh, n)
      BY <1>1, <3>1, <3>2, RenamedHelper
    <3>4. \A n : Stored(g, n) = <<>> \/ \E i \in Files : Stored(g, n) = Stored(fh, i)
      BY <2>2, <3>2, <3>3
    <3>5. AllFit(g)
      BY <1>1, <3>3, <3>4, EmptiedFit
    <3> QED
      BY <2>4, <3>1, <3>5 DEF Rename
  <2> QED
    BY <2>1, <2>3, <2>4
<1> QED
  BY <1>1, <1>2, <1>3 DEF SizeInv

(* The new log file has the message that waited, or nothing.               *)
LEMMA ReopenSizes ==
  ASSUME RotatingInv, SizeInv, Reopen
  PROVE  SizeInv'
<1>1. /\ LogFileInv(fh) /\ IsHelper(fh) /\ ~fh.isOpen /\ AllFit(fh) /\ currentSize \in Nat
      /\ why \in {"log", "hand", "open"} /\ (why = "log" <=> pending # <<>>)
      /\ pending \in Seq(Logged) /\ Len(pending) <= 1
  BY RotatingFacts DEF Reopen, StepInv, SizeInv, LogFileInv
<1>2. PICK h : h = Opened(fh, 0, TRUE)
  OBVIOUS
<1>3. PICK truncate \in BOOLEAN : truncate
  OBVIOUS
<1>4. IsHelper(h) /\ h.isOpen /\ AllFit(h) /\ LogFile(h) = <<>>
  <2>1. h = Opened(fh, 0, truncate)
    BY <1>2, <1>3
  <2>2. LogFileInv(h) /\ AllFit(h) /\ h.isOpen
    BY <1>1, <2>1, OpenFits
  <2>3. LogFile(h) = <<>>
    BY <1>1, <1>3, <2>1, <2>2, OpenFits
  <2> QED
    BY <2>2, <2>3 DEF LogFileInv
<1>5. /\ pc' = "idle"
      /\ fh' = IF pending = <<>> THEN h ELSE Written(h, pending[1])
      /\ why = "log"  => currentSize' = pending[1].size
      /\ why = "open" => currentSize' = 0
      /\ why = "hand" => currentSize' = currentSize
  BY <1>2 DEF Reopen
<1>6. WholeSize(<<>>) = 0
  BY SizeOfParts
<1>7. CASE pending = <<>>
  <2>1. currentSize' \in Nat
    BY <1>1, <1>5, <1>7
  <2>2. fh' = h /\ WholeSize(LogFile(h)) <= currentSize'
    BY <1>4, <1>5, <1>6, <1>7, <2>1
  <2> QED
    BY <1>4, <1>5, <2>1, <2>2 DEF SizeInv
<1>8. CASE pending # <<>>
  <2>1. PICK m, w : m = pending[1] /\ w = Written(h, m)
    OBVIOUS
  <2>2. m \in Logged /\ m.size \in Nat
    BY <1>1, <1>8, <2>1, OneWaits DEF Logged
  <2>3. /\ AllFit(w) /\ WholeSize(LogFile(w)) \in Nat
        /\ WholeSize(LogFile(w)) <= WholeSize(LogFile(h)) + m.size
    BY <1>4, <2>1, <2>2, WriteFits
  <2>4. WholeSize(LogFile(w)) <= m.size
    BY <1>4, <1>6, <2>2, <2>3
  <2>5. why = "log"
    BY <1>1, <1>8 DEF SizeInv
  <2>6. fh' = w /\ currentSize' = m.size /\ pc' = "idle"
    BY <1>5, <1>8, <2>1, <2>5
  <2> QED
    BY <2>2, <2>3, <2>4, <2>6 DEF SizeInv
<1> QED
  BY <1>7, <1>8

(* A message is refused, or cannot be written, or what is buffered cannot, *)
(* or the process dies.                                                    *)
LEMMA LossSizes ==
  ASSUME RotatingInv, SizeInv,
         Crash \/ FlushFails \/ \E size \in MessageSizes : LogThrows(size) \/ LogFails(size)
  PROVE  SizeInv'
<1>1. LogFileInv(fh) /\ IsHelper(fh) /\ AllFit(fh) /\ currentSize \in Nat
  BY RotatingFacts DEF SizeInv, LogFileInv
<1>2. CASE Crash
  <2>1. PICK g : g = Crashed(fh)
    OBVIOUS
  <2>2. IsHelper(g) /\ g.buffer = <<>> /\ \A n : Stored(g, n) = Stored(fh, n)
    BY <1>1, <2>1, CrashedHelper
  <2>3. Fits(LogFile(g))
    <3>1. LogFile(g) = Stored(fh, 0) /\ 0 \in Files
      BY <2>2, FilesOfHelper, SizesAreNumbers DEF LogFile, Files
    <3> QED
      BY <1>1, <3>1 DEF AllFit
  <2>4. AllFit(g)
    BY <1>1, <2>2, <2>3 DEF AllFit
  <2>5. fh' = g /\ pc' = "down" /\ currentSize' = currentSize
    BY <1>2, <2>1 DEF Crash
  <2> QED
    BY <1>1, <2>4, <2>5 DEF SizeInv
<1>3. ASSUME NEW t \in Seq(Logged), NEW next, WriteStops(fh, t, next), pc = "idle", fh.isOpen,
             UNCHANGED rotatingVars,
             \/ t = fh.buffer
             \/ WholeSize(LogFile(fh)) <= MaxSize /\ \E m \in Logged : t = Append(fh.buffer, m)
      PROVE  SizeInv'
  <2>1. /\ AllFit(fh') /\ WholeSize(LogFile(fh')) \in Nat
        /\ WholeSize(LogFile(fh')) <= WholeSize(LogFile(fh))
    BY <1>1, <1>3, StopFits
  <2>2. pc' = "idle" /\ currentSize' = currentSize
    BY <1>3 DEF rotatingVars
  <2>3. WholeSize(LogFile(fh)) <= currentSize /\ WholeSize(LogFile(fh)) \in Nat
    BY <1>1, <1>3, FilesOfHelper, SizeOfParts DEF SizeInv
  <2>4. WholeSize(LogFile(fh')) <= currentSize'
    BY <1>1, <2>1, <2>2, <2>3
  <2> QED
    BY <1>1, <2>1, <2>2, <2>4 DEF SizeInv
<1>4. ASSUME NEW next, WriteStops(fh, fh.buffer, next), pc = "idle", UNCHANGED rotatingVars
      PROVE  SizeInv'
  <2>1. PICK t : t = fh.buffer
    OBVIOUS
  <2>2. t \in Seq(Logged) /\ WriteStops(fh, t, next)
    BY <1>1, <1>4, <2>1, FilesOfHelper
  <2>3. fh.isOpen
    BY <1>1, <2>1, <2>2, StopsNeedMessages DEF IsHelper
  <2> QED
    BY <1>3, <1>4, <2>1, <2>2, <2>3
<1>5. CASE FlushFails
  BY <1>4, <1>5 DEF FlushFails
<1>6. ASSUME NEW size \in MessageSizes, LogThrows(size) PROVE SizeInv'
  <2>1. CASE fh' = fh
    BY <1>6, <2>1 DEF LogThrows, rotatingVars, SizeInv, AllFit
  <2>2. CASE WriteStops(fh, fh.buffer, {nextId})
    BY <1>4, <1>6, <2>2 DEF LogThrows, LogCall
  <2> QED
    BY <1>6, <2>1, <2>2 DEF LogThrows
<1>7. ASSUME NEW size \in MessageSizes, LogFails(size) PROVE SizeInv'
  <2>1. PICK m, t : m = Message(size, 0) /\ t = Append(fh.buffer, m)
    OBVIOUS
  <2>2. m \in Logged /\ t \in Seq(Logged) /\ WriteStops(fh, t, {})
    BY <1>1, <1>7, <2>1, NewMessage, FilesOfHelper DEF LogFails
  <2>3. pc = "idle" /\ fh.isOpen /\ UNCHANGED rotatingVars
    BY <1>7 DEF LogFails, LogCall
  <2>4. WholeSize(LogFile(fh)) <= MaxSize
    <3>1. currentSize + size <= MaxSize \/ FileSize(Flushed(fh)) = 0
      BY <1>7 DEF LogFails
    <3>2. CASE currentSize + size <= MaxSize
      <4>1. WholeSize(LogFile(fh)) <= currentSize /\ WholeSize(LogFile(fh)) \in Nat
        BY <1>1, <2>3, FilesOfHelper, SizeOfParts DEF SizeInv
      <4> QED
        BY <1>1, <3>2, <4>1, SizesAreNumbers
    <3>3. CASE FileSize(Flushed(fh)) = 0
      <4>1. WholeSize(LogFile(fh)) = 0
        BY <1>1, <2>3, <3>3, EmptyLogFile, SizeOfParts
      <4> QED
        BY <4>1, SizesAreNumbers
    <3> QED
      BY <3>1, <3>2, <3>3
  <2> QED
    BY <1>3, <2>1, <2>2, <2>3, <2>4
<1> QED
  BY <1>2, <1>5, <1>6, <1>7

(* Every step, and the step that changes nothing.                          *)
LEMMA SizeStep ==
  ASSUME RotatingInv, SizeInv, [RotatingNext]_<<fileVars, rotatingVars>>
  PROVE  SizeInv'
<1>1. CASE \E rotateOnOpen \in BOOLEAN : OpenSink(rotateOnOpen)
  BY <1>1, OpenSinkSizes
<1>2. CASE OpenSinkFails \/ RenameFails \/ ReopenFails
  BY <1>2, FailureSizes
<1>3. CASE \E size \in MessageSizes : LogPlain(size)
  BY <1>3, LogPlainSizes
<1>4. CASE \/ \E size \in MessageSizes : LogRotates(size)
           \/ RotateNow \/ FlushSink \/ DestroySink
  BY <1>4, CloseSizes
<1>5. CASE SkipMissing \/ RemoveTarget \/ Rename
  BY <1>5, LoopSizes
<1>6. CASE Reopen
  BY <1>6, ReopenSizes
<1>7. CASE Crash \/ FlushFails \/ \E size \in MessageSizes : LogThrows(size) \/ LogFails(size)
  BY <1>7, LossSizes
<1>8. CASE UNCHANGED <<fileVars, rotatingVars>>
  BY <1>8 DEF fileVars, rotatingVars, SizeInv, AllFit
<1> QED
  BY <1>1, <1>2, <1>3, <1>4, <1>5, <1>6, <1>7, <1>8 DEF RotatingNext

(* There is no file at first.                                              *)
LEMMA SizesInitially ==
  ASSUME RotatingInit
  PROVE  SizeInv
<1>1. fh = NewHelper /\ pc = "down" /\ currentSize = 0
  BY DEF RotatingInit, FileInit
<1>2. \A n : Stored(fh, n) = <<>>
  BY <1>1 DEF NewHelper, Stored, Exists
<1>3. LogFile(fh) = <<>>
  BY <1>1, <1>2 DEF LogFile, NewHelper
<1> QED
  BY <1>1, <1>2, <1>3, SmallFit DEF SizeInv, AllFit

(***************************************************************************)
(* No file outgrows the limit, but for one message that is larger than it  *)
(* and for what is left of messages whose writing failed, and by nothing   *)
(* but those pieces does current_size_ fall behind the file: whatever      *)
(* calls fail, write and flush among them (rotating_file_sink-inl.h:111-124, *)
(* file_helper-inl.h:105-107).                                             *)
(***************************************************************************)
THEOREM FilesAlwaysBounded == RotatingSpec => []FilesAreBounded
<1>1. RotatingInit => RotatingInv /\ SizeInv
  BY RotatingInitially, SizesInitially
<1>2. RotatingInv /\ SizeInv /\ [RotatingNext]_<<fileVars, rotatingVars>> =>
        RotatingInv' /\ SizeInv'
  BY RotatingStep, SizeStep DEF KeptByStep
<1>3. RotatingInv /\ SizeInv => FilesAreBounded
  <2> SUFFICES ASSUME RotatingInv, SizeInv PROVE FilesAreBounded
    OBVIOUS
  <2>1. DOMAIN fh.dir \subseteq Files /\ AllFit(fh)
    BY RotatingFacts DEF LogFileInv, SizeInv
  <2>2. \A n \in DOMAIN fh.dir : Fits(fh.dir[n])
    BY <2>1 DEF AllFit, Stored, Exists
  <2>3. pc = "idle" /\ fh.isOpen =>
          WholeSize(LogFile(fh)) <= currentSize /\ Fits(LogFile(fh))
    BY <2>1 DEF SizeInv, AllFit
  <2> QED
    BY <2>2, <2>3, Zenon DEF FilesAreBounded, LogFile
<1> QED
  BY <1>1, <1>2, <1>3, PTL DEF RotatingSpec
----------------------------------------------------------------------------
(* The daily and hourly sinks. *)

(* Files that a sink has made, or found, since its first and that are not  *)
(* in its queue: those it will never delete.                               *)
Untracked == {n \in DOMAIN fh.dir : n >= firstName /\ n \notin Range(queue)}

(* The queue has at most max_files_ names, a file outside it is due to a   *)
(* call that failed, and the open file has the name of its period.         *)
UpInv ==
  /\ queue \in Seq(Int) /\ Len(queue) <= MaxFiles
  /\ Cardinality(Untracked) <= faults
  /\ namedAt \in Nat /\ firstName \in Nat
  /\ fh.isOpen => fh.filename = NameOf(namedAt)

(***************************************************************************)
(* The inductive invariant of TimedFile.                                   *)
(***************************************************************************)
TimedInv ==
  /\ IsHelper(fh) /\ sink \in Sinks /\ now \in Nat /\ faults \in Nat /\ nextId \in Nat
  /\ DOMAIN fh.dir \subseteq 0 .. NameOf(now)
  /\ \A m \in Range(fh.buffer) : m.id < nextId
  /\ isUp \in BOOLEAN /\ (isUp => UpInv)

(* A period has one name, and later periods have larger ones.              *)
LEMMA NameIs ==
  /\ \A t \in Int : NameOf(t) \in Int
  /\ \A t \in Nat : NameOf(t) \in Nat
  /\ \A t \in Int, a \in Int : t < a * Period + Period => NameOf(t) <= a
  /\ \A t \in Int : t < NameOf(t) * Period + Period /\ NameOf(t) * Period <= t
<1>1. Period \in Nat \ {0}
  BY TimedFileAssumption
<1>2. \A t \in Int : t \div Period \in Int
  BY <1>1
<1>3. \A t \in Nat : t \div Period \in Nat
  BY <1>1
<1>4. ASSUME NEW t \in Int, NEW a \in Int, t < a * Period + Period PROVE t \div Period <= a
  BY <1>1, <1>4
<1>5. ASSUME NEW t \in Int
      PROVE  t < (t \div Period) * Period + Period /\ (t \div Period) * Period <= t
  BY <1>1
<1> QED
  BY <1>2, <1>3, <1>4, <1>5 DEF NameOf

(* The names of times are in their order.                                  *)
LEMMA NamesAreMonotone ==
  ASSUME NEW t \in Nat, NEW u \in Nat, t <= u
  PROVE  NameOf(t) <= NameOf(u)
<1>1. PICK a : a = NameOf(u)
  OBVIOUS
<1>2. a \in Int /\ u < a * Period + Period
  BY <1>1, NameIs
<1>3. a * Period \in Int /\ Period \in Int
  BY <1>2, TimedFileAssumption
<1>4. t < a * Period + Period
  BY <1>2, <1>3
<1> QED
  BY <1>1, <1>2, <1>4, NameIs

(* A set that grows by one member at most.                                 *)
LEMMA CountWithOneMore ==
  ASSUME NEW S, IsFiniteSet(S), NEW f \in Nat, Cardinality(S) <= f, NEW T
  PROVE  /\ T \subseteq S => Cardinality(T) <= f
         /\ \A x : T \subseteq S \cup {x} => Cardinality(T) <= f + 1
<1>1. Cardinality(S) \in Nat
  BY FS_CardinalityType
<1>2. ASSUME T \subseteq S PROVE Cardinality(T) <= f
  <2>1. IsFiniteSet(T) /\ Cardinality(T) <= Cardinality(S)
    BY <1>2, FS_Subset
  <2>2. Cardinality(T) \in Nat
    BY <2>1, FS_CardinalityType
  <2> QED
    BY <1>1, <2>1, <2>2
<1>3. ASSUME NEW x, T \subseteq S \cup {x} PROVE Cardinality(T) <= f + 1
  <2>1. IsFiniteSet(S \cup {x}) /\ Cardinality(S \cup {x}) <= Cardinality(S) + 1
    BY <1>1, FS_AddElement
  <2>2. IsFiniteSet(T) /\ Cardinality(T) <= Cardinality(S \cup {x})
    BY <1>3, <2>1, FS_Subset
  <2>3. Cardinality(T) \in Nat /\ Cardinality(S \cup {x}) \in Nat
    BY <2>1, <2>2, FS_CardinalityType
  <2> QED
    BY <1>1, <2>1, <2>2, <2>3
<1> QED
  BY <1>2, <1>3

(* The names in a queue.                                                   *)
LEMMA QueueNames ==
  ASSUME NEW q \in Seq(Int)
  PROVE  /\ IsFiniteSet(Range(q)) /\ Cardinality(Range(q)) <= Len(q)
         /\ \A x \in Int : Append(q, x) \in Seq(Int) /\ Range(Append(q, x)) = Range(q) \cup {x}
         /\ q # <<>> => /\ Tail(q) \in Seq(Int) /\ Len(Tail(q)) = Len(q) - 1
                        /\ Range(q) = {Head(q)} \cup Range(Tail(q)) /\ Head(q) \in Int
<1>1. IsFiniteSet(Range(q)) /\ Cardinality(Range(q)) <= Len(q)
  <2>1. q \in Surjection(1 .. Len(q), Range(q))
    BY DEF Surjection, Range
  <2>2. PICK n : n = Len(q)
    OBVIOUS
  <2>3. n \in Nat
    BY <2>2
  <2>4. IsFiniteSet(1 .. n) /\ Cardinality(1 .. n) = IF 1 > n THEN 0 ELSE n - 1 + 1
    BY <2>3, FS_Interval
  <2>5. Cardinality(1 .. n) = n
    BY <2>3, <2>4
  <2> QED
    BY <2>1, <2>2, <2>4, <2>5, FS_Surjection
<1>2. ASSUME NEW x \in Int
      PROVE  Append(q, x) \in Seq(Int) /\ Range(Append(q, x)) = Range(q) \cup {x}
  <2>1. /\ Append(q, x) \in Seq(Int) /\ DOMAIN Append(q, x) = 1 .. Len(q) + 1
        /\ \A i \in 1 .. Len(q) : Append(q, x)[i] = q[i]
        /\ Append(q, x)[Len(q) + 1] = x
    OBVIOUS
  <2>2. Len(q) \in Nat /\ DOMAIN q = 1 .. Len(q)
    OBVIOUS
  <2>3. PICK n, d : n = Len(q) /\ d = Append(q, x)
    OBVIOUS
  <2>4. 1 .. n + 1 = (1 .. n) \cup {n + 1}
    BY <2>2, <2>3
  <2>5. Range(d) = Range(q) \cup {x}
    BY <2>1, <2>2, <2>3, <2>4 DEF Range
  <2> QED
    BY <2>1, <2>3, <2>5
<1>3. ASSUME q # <<>>
      PROVE  /\ Tail(q) \in Seq(Int) /\ Len(Tail(q)) = Len(q) - 1
             /\ Range(q) = {Head(q)} \cup Range(Tail(q)) /\ Head(q) \in Int
  <2>1. PICK n, t : n = Len(q) /\ t = Tail(q)
    OBVIOUS
  <2>2. n \in Nat /\ n # 0 /\ DOMAIN q = 1 .. n
    BY <1>3, <2>1, EmptySeq
  <2>3. /\ t \in Seq(Int) /\ DOMAIN t = 1 .. n - 1 /\ Len(t) = n - 1
        /\ \A i \in 1 .. n - 1 : t[i] = q[i + 1]
    BY <1>3, <2>1, <2>2
  <2>4. Head(q) = q[1] /\ q[1] \in Int
    BY <1>3, <2>2
  <2>5. ASSUME NEW y \in Range(q) PROVE y \in {q[1]} \cup Range(t)
    <3>1. PICK i \in 1 .. n : y = q[i]
      BY <2>2 DEF Range
    <3>2. CASE i = 1
      BY <3>1, <3>2
    <3>3. CASE i # 1
      <4>1. i - 1 \in 1 .. n - 1 /\ (i - 1) + 1 = i
        BY <2>2, <3>3
      <4>2. t[i - 1] = y
        BY <2>3, <3>1, <4>1
      <4> QED
        BY <2>3, <4>1, <4>2 DEF Range
    <3> QED
      BY <3>2, <3>3
  <2>6. ASSUME NEW y \in {q[1]} \cup Range(t) PROVE y \in Range(q)
    <3>1. CASE y = q[1]
      BY <2>2, <3>1 DEF Range
    <3>2. CASE y \in Range(t)
      <4>1. PICK i \in 1 .. n - 1 : y = t[i]
        BY <2>3, <3>2 DEF Range
      <4>2. i + 1 \in 1 .. n
        BY <2>2
      <4> QED
        BY <2>2, <2>3, <4>1, <4>2 DEF Range
    <3> QED
      BY <3>1, <3>2
  <2> QED
    BY <2>1, <2>3, <2>4, <2>5, <2>6
<1> QED
  BY <1>1, <1>2, <1>3

(* The queue of a new sink has at most max_files_ names, the current one   *)
(* among them if its file exists.                                          *)
LEMMA InitQueueIs ==
  ASSUME NEW h, NEW time \in Nat
  PROVE  LET q == InitQueue(h, time)
         IN  /\ q \in Seq(Int) /\ Len(q) <= MaxFiles
             /\ Exists(h, NameOf(time)) => NameOf(time) \in Range(q)
<1>1. PICK last, S : /\ last = NameOf(time)
                     /\ S = {k \in 0 .. MaxFiles : \A j \in 0 .. k - 1 : Exists(h, last - j)}
  OBVIOUS
<1>2. last \in Int /\ MaxFiles \in Nat /\ MaxFiles # 0
  BY <1>1, NameIs, TimedFileAssumption
<1>3. S \in SUBSET (0 .. MaxFiles) /\ 0 \in S /\ \A k \in S : 0 .. k \subseteq S
  BY <1>1, <1>2
<1>4. PICK size : size = Max(S)
  OBVIOUS
<1>5. size \in 0 .. MaxFiles /\ \A k \in S : k <= size
  BY <1>2, <1>3, <1>4, LargestWithoutGaps
<1>6. PICK q : q = [i \in 1 .. size |-> last - size + i]
  OBVIOUS
<1>7. InitQueue(h, time) = q
  BY <1>1, <1>4, <1>6, Zenon DEF InitQueue
<1>8. q \in Seq(Int) /\ Len(q) = size
  BY <1>2, <1>5, <1>6
<1>9. ASSUME Exists(h, last) PROVE last \in Range(q)
  <2>1. 1 \in S
    <3>1. \A j \in 0 .. 1 - 1 : Exists(h, last - j)
      BY <1>2, <1>9
    <3> QED
      BY <1>1, <1>2, <3>1
  <2>2. size \in 1 .. size
    BY <1>5, <2>1
  <2>3. q[size] = last /\ DOMAIN q = 1 .. size
    BY <1>2, <1>5, <1>6, <2>2
  <2> QED
    BY <2>2, <2>3 DEF Range
<1> QED
  BY <1>1, <1>5, <1>7, <1>8, <1>9

----------------------------------------------------------------------------
(* The steps of the daily and hourly sinks. *)

(* What EachMessageInItsPeriod says of a step.                             *)
WrittenInPeriod ==
  \A m \in Range(fh'.buffer) :
    m.id = nextId /\ rotationTp' = NextRotation(namedAt') =>
      fh'.filename >= NameOf(m.time - sink.rotation)

TimedKept == TimedInv' /\ WrittenInPeriod

(* What is left of messages when their writing stops: it has their times,  *)
(* and if there was one byte, nothing.                                     *)
LEMMA PartTimes ==
  ASSUME NEW t \in Seq(Logged), NEW p \in Parts(t)
  PROVE  \A k \in DOMAIN p : k \in DOMAIN t /\ p[k].id = t[k].id /\ p[k].time = t[k].time
<1>1. PICK k \in 0 .. Len(t) - 1 :
        p \in {SubSeq(t, 1, k)} \cup
              {Append(SubSeq(t, 1, k), [t[k + 1] EXCEPT !.size = c, !.whole = FALSE]) :
                 c \in 1 .. t[k + 1].size - 1}
  BY Zenon DEF Parts
<1>2. PICK n, first : n = Len(t) /\ first = SubSeq(t, 1, k)
  OBVIOUS
<1>3. n \in Nat /\ k \in Nat /\ k < n /\ k + 1 \in 1 .. n
  BY <1>2
<1>4. /\ first \in Seq(Logged) /\ Len(first) = k /\ DOMAIN first = 1 .. k
      /\ \A j \in 1 .. k : first[j] = t[j]
  BY <1>2, <1>3
<1>5. DOMAIN t = 1 .. n
  BY <1>2
<1>6. CASE p = first
  BY <1>3, <1>4, <1>5, <1>6
<1>7. CASE p \in {Append(first, [t[k + 1] EXCEPT !.size = c, !.whole = FALSE]) :
                   c \in 1 .. t[k + 1].size - 1}
  <2>1. PICK c : p = Append(first, [t[k + 1] EXCEPT !.size = c, !.whole = FALSE])
    BY <1>7
  <2>2. PICK e, m : m = t[k + 1] /\ e = [m EXCEPT !.size = c, !.whole = FALSE]
    OBVIOUS
  <2>3. m \in Logged
    BY <1>2, <1>3, <2>2
  <2>4. e.id = m.id /\ e.time = m.time
    BY <2>2, <2>3 DEF Logged
  <2>5. p = Append(first, e)
    BY <2>1, <2>2
  <2>6. DOMAIN p = 1 .. k + 1 /\ p[k + 1] = e /\ \A j \in 1 .. k : p[j] = first[j]
    BY <1>3, <1>4, <2>5
  <2>7. \A j \in 1 .. k + 1 : j \in 1 .. n /\ (j \in 1 .. k \/ j = k + 1)
    BY <1>3
  <2> QED
    BY <1>4, <1>5, <2>2, <2>4, <2>6, <2>7
<1> QED
  BY <1>1, <1>2, <1>6, <1>7

(* A write that stops, of the sinks of TimedFile.                          *)
LEMMA TimedStops ==
  ASSUME NEW h, IsHelper(h), h.isOpen, NEW t \in Seq(Logged), NEW next,
         WriteStops(h, t, next)
  PROVE  /\ IsHelper(fh') /\ fh'.filename = h.filename /\ fh'.isOpen
         /\ DOMAIN fh'.dir = DOMAIN h.dir
         /\ \A e \in Range(fh'.buffer) :
              \E m \in Range(t) : e.id = m.id /\ e.time = m.time
<1>1. PICK p \in Parts(t) : fh' \in {[h EXCEPT !.buffer = p], Flushed([h EXCEPT !.buffer = p])}
  BY Zenon DEF WriteStops
<1>2. PICK left : left = [h EXCEPT !.buffer = p]
  OBVIOUS
<1>3. p \in Seq(Logged)
  BY PartIs
<1>4. IsHelper(left) /\ left.dir = h.dir /\ left.filename = h.filename /\ left.isOpen /\ left.buffer = p
  BY <1>2, <1>3, BufferedHelper
<1>5. /\ IsHelper(fh') /\ fh'.filename = left.filename /\ fh'.isOpen = left.isOpen
      /\ DOMAIN fh'.dir = DOMAIN left.dir /\ fh'.buffer \in {p, <<>>}
  BY <1>1, <1>2, <1>4, FlushedHelper
<1>6. ASSUME NEW e \in Range(fh'.buffer)
      PROVE  \E m \in Range(t) : e.id = m.id /\ e.time = m.time
  <2>1. PICK b : b = <<>>
    OBVIOUS
  <2>2. Range(b) = {}
    BY <2>1 DEF Range
  <2>3. e \in Range(p)
    BY <1>5, <2>1, <2>2
  <2>4. PICK k \in DOMAIN p : e = p[k]
    BY <2>3 DEF Range
  <2>5. k \in DOMAIN t /\ e.id = t[k].id /\ e.time = t[k].time
    BY <2>4, PartTimes
  <2>6. t[k] \in Range(t)
    BY <2>5 DEF Range
  <2> QED
    BY <2>5, <2>6
<1> QED
  BY <1>4, <1>5, <1>6

(* With nothing in the buffer, emptying it changes nothing, nor does a     *)
(* flush.                                                                  *)
LEMMA EmptyBuffer ==
  ASSUME NEW h, IsHelper(h), h.buffer = <<>>
  PROVE  [h EXCEPT !.buffer = <<>>] = h /\ Flushed(h) = h
<1>1. h = [dir |-> h.dir, filename |-> h.filename, isOpen |-> h.isOpen, buffer |-> <<>>,
           unlinked |-> h.unlinked]
  BY DEF IsHelper, IsRecord
<1>2. PICK g : g = [h EXCEPT !.buffer = <<>>]
  OBVIOUS
<1>3. g = [dir |-> h.dir, filename |-> h.filename, isOpen |-> h.isOpen, buffer |-> <<>>,
           unlinked |-> h.unlinked]
  BY <1>2, HelperFields DEF IsHelper
<1>4. g = h
  BY <1>1, <1>3
<1>5. CASE ~(h.isOpen /\ ~h.unlinked)
  BY <1>2, <1>4, <1>5 DEF Flushed
<1>6. CASE h.isOpen /\ ~h.unlinked
  <2>1. PICK d, n, b, e : /\ d = h.dir /\ n = h.filename /\ b = h.buffer
                          /\ e = [d EXCEPT ![n] = @ \o b]
    OBVIOUS
  <2>2. d \in [DOMAIN d -> Seq(Logged)] /\ n \in DOMAIN d /\ b = <<>>
    BY <1>6, <2>1 DEF IsHelper, IsRecord, Exists
  <2>3. d[n] \in Seq(Logged)
    BY <2>2
  <2>4. d[n] \o b = d[n]
    BY <2>2, <2>3
  <2>5. e = d
    BY <2>1, <2>2, <2>4
  <2>6. PICK f : f = [h EXCEPT !.dir = e]
    OBVIOUS
  <2>7. f = [dir |-> e, filename |-> h.filename, isOpen |-> h.isOpen, buffer |-> h.buffer,
             unlinked |-> h.unlinked]
    BY <2>6, HelperFields DEF IsHelper
  <2>8. f = h
    BY <1>1, <2>1, <2>5, <2>7
  <2>9. Flushed(h) = [f EXCEPT !.buffer = <<>>]
    BY <1>6, <2>1, <2>6, Zenon DEF Flushed
  <2> QED
    BY <1>2, <1>4, <2>8, <2>9
<1> QED
  BY <1>2, <1>4, <1>5, <1>6

(* A write of one byte that stops.                                         *)
LEMMA NothingOfOne ==
  ASSUME NEW h, IsHelper(h), h.buffer = <<>>, NEW m \in Logged, m.size = 1, NEW next,
         WriteStops(h, <<m>>, next)
  PROVE  fh' = h
<1>1. PICK t : t = <<m>>
  OBVIOUS
<1>2. PICK p \in Parts(t) : fh' \in {[h EXCEPT !.buffer = p], Flushed([h EXCEPT !.buffer = p])}
  BY <1>1, Zenon DEF WriteStops
<1>3. t \in Seq(Logged) /\ Len(t) = 1 /\ t[1] = m
  BY <1>1
<1>4. PICK k \in 0 .. Len(t) - 1 :
        p \in {SubSeq(t, 1, k)} \cup
              {Append(SubSeq(t, 1, k), [t[k + 1] EXCEPT !.size = c, !.whole = FALSE]) :
                 c \in 1 .. t[k + 1].size - 1}
  BY Zenon DEF Parts
<1>5. k = 0
  BY <1>3
<1>6. 1 .. t[k + 1].size - 1 = {}
  <2>1. t[k + 1] = m
    BY <1>3, <1>5
  <2>2. PICK n : n = t[k + 1].size
    OBVIOUS
  <2>3. n = 1
    BY <2>1, <2>2
  <2>4. 1 .. n - 1 = {}
    BY <2>3
  <2> QED
    BY <2>2, <2>4
<1>7. p = <<>>
  <2>1. p = SubSeq(t, 1, 0)
    BY <1>4, <1>5, <1>6
  <2> QED
    BY <1>3, <2>1
<1>8. [h EXCEPT !.buffer = p] = h /\ Flushed(h) = h
  BY <1>7, EmptyBuffer
<1> QED
  BY <1>2, <1>8

(* A step that buffers nothing new, and makes no file.                     *)
LEMMA QuietTimedStep ==
  ASSUME TimedInv, IsHelper(fh'),
         \/ Range(fh'.buffer) \subseteq Range(fh.buffer)
         \/ \A e \in Range(fh'.buffer) : \E m \in Range(fh.buffer) : e.id = m.id,
         sink' = sink, now' \in {now, now + 1}, faults' \in {faults, faults + 1},
         nextId' \in {nextId, nextId + 1}, DOMAIN fh'.dir \subseteq 0 .. NameOf(now'),
         isUp' \in BOOLEAN, isUp' => UpInv'
  PROVE  TimedKept
<1>1. nextId \in Nat /\ now \in Nat /\ faults \in Nat /\ sink \in Sinks
  BY DEF TimedInv
<1>2. \A m \in Range(fh.buffer) : m.id \in Int /\ m.id < nextId
  <2>1. fh.buffer \in Seq(Logged)
    BY DEF TimedInv, IsHelper, IsRecord
  <2>2. \A m \in Range(fh.buffer) : m \in Logged
    BY <2>1 DEF Range
  <2> QED
    BY <2>2 DEF TimedInv, Logged
<1>0. \A e \in Range(fh'.buffer) : \E m \in Range(fh.buffer) : e.id = m.id
  OBVIOUS
<1>3. \A m \in Range(fh'.buffer) : m.id < nextId' /\ m.id # nextId
  BY <1>0, <1>1, <1>2
<1>4. WrittenInPeriod
  BY <1>3 DEF WrittenInPeriod
<1>5. TimedInv'
  BY <1>1, <1>3 DEF TimedInv
<1> QED
  BY <1>4, <1>5 DEF TimedKept
(* The arguments that a sink is constructed with.                          *)
LEMMA SinkArguments ==
  ASSUME sink \in Sinks
  PROVE  /\ sink.hourly \in BOOLEAN /\ sink.truncate \in BOOLEAN
         /\ sink.rotation \in Nat /\ sink.rotation < Period /\ Period \in Nat \ {0}
<1>1. Period \in Nat \ {0} /\ Rotations \subseteq 0 .. Period - 1
  BY TimedFileAssumption
<1>2. sink.rotation \in Rotations \cup {0} /\ sink.hourly \in BOOLEAN /\ sink.truncate \in BOOLEAN
  BY DEF Sinks
<1>3. PICK r : r = sink.rotation
  OBVIOUS
<1>4. r \in 0 .. Period - 1
  <2>1. r \in Rotations \/ r = 0
    BY <1>2, <1>3
  <2>2. 0 \in 0 .. Period - 1
    BY <1>1
  <2> QED
    BY <1>1, <2>1, <2>2
<1>5. r \in Nat /\ r < Period
  BY <1>1, <1>4
<1> QED
  BY <1>1, <1>2, <1>3, <1>5

(* The files that are not in the queue are finite in number.               *)
LEMMA UntrackedIsFinite ==
  ASSUME TimedInv
  PROVE  IsFiniteSet(Untracked)
<1>1. PICK n : n = NameOf(now)
  OBVIOUS
<1>2. n \in Nat
  BY <1>1, NameIs DEF TimedInv
<1>3. IsFiniteSet(0 .. n)
  BY <1>2, FS_Interval
<1>4. Untracked \subseteq 0 .. n
  BY <1>1 DEF TimedInv, Untracked
<1> QED
  BY <1>3, <1>4, FS_Subset

(* Time passes.                                                            *)
LEMMA TickStep ==
  ASSUME TimedInv, Tick
  PROVE  TimedKept
<1>1. now \in Nat /\ now' = now + 1 /\ fh' = fh /\ faults' = faults /\ nextId' = nextId
  BY DEF TimedInv, Tick, fileVars
<1>2. sink' = sink /\ isUp' = isUp /\ queue' = queue /\ namedAt' = namedAt /\ firstName' = firstName
  BY DEF Tick, sinkVars
<1>3. DOMAIN fh'.dir \subseteq 0 .. NameOf(now')
  <2>1. NameOf(now) \in Nat /\ NameOf(now') \in Nat /\ NameOf(now) <= NameOf(now')
    BY <1>1, NameIs, NamesAreMonotone
  <2> QED
    BY <1>1, <2>1 DEF TimedInv
<1>4. Untracked' = Untracked
  BY <1>1, <1>2 DEF Untracked
<1>5. isUp' => UpInv'
  BY <1>1, <1>2, <1>4 DEF TimedInv, UpInv, NameOf
<1> QED
  BY <1>1, <1>2, <1>3, <1>5, QuietTimedStep DEF TimedInv

(* The sink is flushed.                                                    *)
LEMMA FlushTimedStep ==
  ASSUME TimedInv, FlushTimed
  PROVE  TimedKept
<1>1. now' = now /\ faults' \in {faults, faults + 1} /\ nextId' = nextId
  BY DEF FlushTimed, Fault, timedVars
<1>2. sink' = sink /\ isUp' = isUp /\ queue' = queue /\ namedAt' = namedAt /\ firstName' = firstName
  BY DEF FlushTimed, timedVars, sinkVars
<1>3. /\ IsHelper(fh') /\ fh'.filename = fh.filename /\ fh'.isOpen = fh.isOpen
      /\ DOMAIN fh'.dir = DOMAIN fh.dir
      /\ \A e \in Range(fh'.buffer) : \E m \in Range(fh.buffer) : e.id = m.id
  <2>1. IsHelper(fh) /\ fh.isOpen /\ fh.buffer \in Seq(Logged)
    BY DEF FlushTimed, TimedInv, IsHelper, IsRecord
  <2>2. CASE fh' = Flushed(fh)
    <3>1. IsHelper(fh') /\ fh'.filename = fh.filename /\ fh'.isOpen = fh.isOpen
          /\ fh'.buffer = <<>> /\ DOMAIN fh'.dir = DOMAIN fh.dir
      BY <2>1, <2>2, FlushedHelper
    <3>2. Range(fh'.buffer) = {}
      BY <3>1 DEF Range
    <3> QED
      BY <3>1, <3>2
  <2>3. CASE WriteStops(fh, fh.buffer, {})
    <3>1. PICK none : none = {}
      OBVIOUS
    <3>2. WriteStops(fh, fh.buffer, none)
      BY <2>3, <3>1
    <3>3. /\ IsHelper(fh') /\ fh'.filename = fh.filename /\ fh'.isOpen
          /\ DOMAIN fh'.dir = DOMAIN fh.dir
          /\ \A e \in Range(fh'.buffer) :
               \E m \in Range(fh.buffer) : e.id = m.id /\ e.time = m.time
      BY <2>1, <3>2, TimedStops
    <3> QED
      BY <2>1, <3>3 DEF IsHelper, IsRecord
  <2> QED
    BY <2>2, <2>3 DEF FlushTimed
<1>5. Untracked' = Untracked
  BY <1>2, <1>3 DEF Untracked
<1>6. isUp' => UpInv'
  <2>1. Cardinality(Untracked) \in Nat /\ faults \in Nat
    BY UntrackedIsFinite, FS_CardinalityType DEF TimedInv
  <2>2. ASSUME UpInv PROVE UpInv'
    <3>1. Cardinality(Untracked') <= faults'
      BY <1>1, <1>5, <2>1, <2>2 DEF UpInv
    <3> QED
      BY <1>2, <1>3, <2>2, <3>1 DEF UpInv, NameOf
  <2> QED
    BY <1>2, <2>2 DEF TimedInv
<1>7. DOMAIN fh'.dir \subseteq 0 .. NameOf(now') /\ isUp' \in BOOLEAN
  BY <1>1, <1>2, <1>3 DEF TimedInv
<1> QED
  BY <1>1, <1>2, <1>3, <1>6, <1>7, QuietTimedStep

(* The sink is destroyed, or its process dies.                             *)
LEMMA EndTimedStep ==
  ASSUME TimedInv, DestroyTimed \/ CrashTimed
  PROVE  TimedKept
<1>1. /\ now' = now /\ fh' \in {Closed(fh), Crashed(fh)}
      /\ faults' \in {faults, faults + 1} /\ nextId' = nextId
  BY DEF DestroyTimed, CrashTimed, Fault
<1>2. sink' = sink /\ isUp' = FALSE
  BY DEF DestroyTimed, CrashTimed, EndSink
<1>3. IsHelper(fh') /\ fh'.buffer = <<>> /\ DOMAIN fh'.dir = DOMAIN fh.dir
  BY <1>1, ClosedHelper, CrashedHelper DEF TimedInv
<1>4. Range(fh'.buffer) = {}
  BY <1>3 DEF Range
<1>5. DOMAIN fh'.dir \subseteq 0 .. NameOf(now')
  BY <1>1, <1>3 DEF TimedInv
<1> QED
  BY <1>1, <1>2, <1>3, <1>4, <1>5, QuietTimedStep

(* The sink is constructed.  Its file is in its queue, unless the period   *)
(* ended between the two readings of the clock, a fault.                   *)
LEMMA OpenTimedStep ==
  ASSUME TimedInv, NEW later \in now .. now + 1, OpenTimed(later)
  PROVE  TimedKept
<1>1. PICK a, b : a = NameOf(now) /\ b = NameOf(later)
  OBVIOUS
<1>2. /\ now \in Nat /\ later \in Nat /\ a \in Nat /\ b \in Nat /\ a <= b
      /\ now' = later /\ later \in {now, now + 1}
  <2>1. now \in Nat /\ later \in Nat /\ now <= later /\ later \in {now, now + 1}
    BY DEF TimedInv
  <2> QED
    BY <1>1, <2>1, NameIs, NamesAreMonotone DEF OpenTimed
<1>3. PICK h : h = Opened(fh, a, sink.truncate)
  OBVIOUS
<1>4. fh' = h /\ queue' = InitQueue(h, later)
  BY <1>1, <1>3, Zenon DEF OpenTimed
<1>5. /\ isUp' = TRUE /\ namedAt' = now /\ firstName' = a /\ sink' = sink /\ nextId' = nextId
      /\ IF a = b THEN faults' = faults ELSE faults' = faults + 1
  BY <1>1 DEF OpenTimed, Fault
<1>6. /\ IsHelper(h) /\ h.filename = a /\ h.isOpen /\ h.buffer = <<>>
      /\ DOMAIN h.dir = DOMAIN fh.dir \cup {a}
  <2>1. IsHelper(fh) /\ sink.truncate \in BOOLEAN
    BY SinkArguments DEF TimedInv
  <2> QED
    BY <1>2, <1>3, <2>1, OpenedHelper
<1>7. DOMAIN h.dir \subseteq 0 .. a
  BY <1>1, <1>2, <1>6 DEF TimedInv
<1>8. DOMAIN fh'.dir \subseteq 0 .. NameOf(now')
  <2>1. DOMAIN h.dir \subseteq 0 .. b
    BY <1>2, <1>7
  <2> QED
    BY <1>1, <1>2, <1>4, <2>1
<1>9. queue' \in Seq(Int) /\ Len(queue') <= MaxFiles /\ (Exists(h, b) => b \in Range(queue'))
  BY <1>1, <1>2, <1>4, InitQueueIs
<1>10. Cardinality(Untracked') <= faults'
  <2>1. Untracked' \subseteq {a}
    <3>1. \A n \in DOMAIN h.dir : n >= a => n = a
      BY <1>2, <1>7
    <3> QED
      BY <1>4, <1>5, <3>1 DEF Untracked
  <2>2. a = b => Untracked' = {}
    <3>1. a = b => a \in Range(queue')
      BY <1>6, <1>9 DEF Exists
    <3>2. \A n \in Untracked' : n \notin Range(queue')
      BY DEF Untracked
    <3> QED
      BY <2>1, <3>1, <3>2
  <2>3. faults \in Nat
    BY DEF TimedInv
  <2>4. CASE a = b
    <3>1. Cardinality(Untracked') = 0
      BY <2>2, <2>4, FS_EmptySet
    <3> QED
      BY <1>5, <2>3, <2>4, <3>1
  <2>5. CASE a # b
    <3>1. Untracked' \subseteq {} \cup {a} /\ Cardinality({}) = 0 /\ IsFiniteSet({})
      BY <2>1, FS_EmptySet
    <3>2. Cardinality(Untracked') <= 0 + 1
      <4>1. PICK T : T = Untracked'
        OBVIOUS
      <4>2. PICK E : E = {}
        OBVIOUS
      <4>3. IsFiniteSet(E) /\ Cardinality(E) <= 0 /\ T \subseteq E \cup {a}
        BY <3>1, <4>1, <4>2
      <4> QED
        BY <4>1, <4>3, CountWithOneMore
    <3>3. Cardinality(Untracked') <= 1 /\ faults' = faults + 1
      BY <1>5, <2>5, <3>2
    <3>4. Cardinality(Untracked') \in Nat
      <4>1. IsFiniteSet({a})
        BY FS_Singleton
      <4> QED
        BY <2>1, <4>1, FS_Subset, FS_CardinalityType
    <3> QED
      BY <2>3, <3>3, <3>4
  <2> QED
    BY <2>4, <2>5
<1>11. UpInv'
  <2>1. fh'.filename = NameOf(namedAt)'
    BY <1>1, <1>4, <1>5, <1>6 DEF NameOf
  <2> QED
    BY <1>2, <1>5, <1>9, <1>10, <2>1 DEF UpInv, NameOf
<1>12. Range(fh'.buffer) = {} /\ IsHelper(fh')
  BY <1>4, <1>6 DEF Range
<1>13. now' \in {now, now + 1} /\ faults' \in {faults, faults + 1} /\ nextId' \in {nextId, nextId + 1}
  BY <1>2, <1>5
<1>14. Range(fh'.buffer) \subseteq Range(fh.buffer) /\ isUp' \in BOOLEAN
  BY <1>5, <1>12
<1> QED
  BY <1>5, <1>8, <1>11, <1>12, <1>13, <1>14, QuietTimedStep
(* A message is logged in the file that is open.  Until the next rotation  *)
(* is the file of the message's period.                                    *)
LEMMA BeforeRotationInPeriod ==
  ASSUME sink \in Sinks, NEW from \in Nat, NEW time \in Nat, time < NextRotation(from)
  PROVE  NameOf(time - sink.rotation) <= NameOf(from)
<1>1. PICK r, a : r = sink.rotation /\ a = NameOf(from)
  OBVIOUS
<1>2. r \in Nat /\ Period \in Nat /\ a \in Nat
  BY <1>1, SinkArguments, NameIs
<1>3. PICK p : p = a * Period
  OBVIOUS
<1>4. p \in Nat
  BY <1>2, <1>3
<1>5. NextRotation(from) \in {p + r, p + r + Period}
  BY <1>1, <1>3 DEF NextRotation
<1>6. PICK t : t = time - r
  OBVIOUS
<1>7. t \in Int /\ t < p + Period
  BY <1>2, <1>4, <1>5, <1>6
<1>8. t < a * Period + Period
  BY <1>3, <1>7
<1>9. NameOf(t) <= a
  BY <1>2, <1>7, <1>8, NameIs
<1> QED
  BY <1>1, <1>6, <1>9

(* A message that is logged in the file of a period.                       *)
LEMMA MessageStep ==
  ASSUME TimedInv, NEW m, m = Message(1, m.time), m.time \in Nat, IsHelper(fh'),
         \A e \in Range(fh'.buffer) :
           \/ e \in Range(fh.buffer)
           \/ \E x \in Range(fh.buffer) \cup {m} : e.id = x.id /\ e.time = x.time,
         nextId' = nextId + 1, sink' = sink, now' = now, faults' \in {faults, faults + 1},
         isUp' = TRUE, UpInv', DOMAIN fh'.dir \subseteq 0 .. NameOf(now),
         fh'.buffer # <<>> /\ rotationTp' = NextRotation(namedAt') =>
           fh'.filename >= NameOf(m.time - sink.rotation)
  PROVE  TimedKept
<1>1. nextId \in Nat /\ now \in Nat /\ faults \in Nat /\ sink \in Sinks
  BY DEF TimedInv
<1>2. \A e \in Range(fh.buffer) : e.id \in Int /\ e.id < nextId
  <2>1. fh.buffer \in Seq(Logged)
    BY DEF TimedInv, IsHelper, IsRecord
  <2>2. \A e \in Range(fh.buffer) : e \in Logged
    BY <2>1 DEF Range
  <2> QED
    BY <2>2 DEF TimedInv, Logged
<1>3. m.id = nextId
  BY DEF Message
<1>4. \A e \in Range(fh'.buffer) : e.id < nextId' /\ (e.id = nextId => e.time = m.time)
  BY <1>1, <1>2, <1>3
<1>5. WrittenInPeriod
  <2>1. Range(fh'.buffer) # {} => fh'.buffer # <<>>
    BY DEF Range
  <2> QED
    BY <1>4, <2>1 DEF WrittenInPeriod
<1>6. DOMAIN fh'.dir \subseteq 0 .. NameOf(now')
  OBVIOUS
<1>7. TimedInv'
  BY <1>1, <1>4, <1>6 DEF TimedInv
<1> QED
  BY <1>5, <1>7 DEF TimedKept

(* The messages of a buffer to which one is added.                         *)
LEMMA BufferWithMessage ==
  ASSUME NEW b \in Seq(Logged), NEW m \in Logged
  PROVE  Range(Append(b, m)) \subseteq Range(b) \cup {m}
<1>1. PICK n, d : n = Len(b) /\ d = Append(b, m)
  OBVIOUS
<1>2. n \in Nat /\ DOMAIN b = 1 .. n /\ DOMAIN d = 1 .. n + 1
  BY <1>1
<1>3. d[n + 1] = m /\ \A i \in 1 .. n : d[i] = b[i]
  BY <1>1
<1>4. \A i \in 1 .. n + 1 : i \in 1 .. n \/ i = n + 1
  BY <1>2
<1> QED
  BY <1>1, <1>2, <1>3, <1>4 DEF Range

(* A message of this sink.                                                 *)
LEMMA TimedMessage ==
  ASSUME nextId \in Nat, NEW time \in Nat
  PROVE  /\ Message(1, time) \in Logged /\ Message(1, time).time = time
         /\ Message(1, time) = Message(1, Message(1, time).time)
  BY DEF Message, Logged

(* A message is logged in the file that is open.                           *)
LEMMA LogInFileStep ==
  ASSUME TimedInv, NEW time \in 0 .. now, LogInFile(time)
  PROVE  TimedKept
<1>1. time \in Nat /\ nextId \in Nat /\ now \in Nat /\ sink \in Sinks /\ IsHelper(fh)
  BY DEF TimedInv
<1>2. PICK m : m = Message(1, time)
  OBVIOUS
<1>3. m \in Logged /\ m.time = time /\ m = Message(1, m.time)
  BY <1>1, <1>2, TimedMessage
<1>4. PICK w : w = Written(fh, m)
  OBVIOUS
<1>5. /\ IsHelper(w) /\ w.dir = fh.dir /\ w.filename = fh.filename /\ w.isOpen = fh.isOpen
      /\ w.buffer = IF fh.isOpen THEN Append(fh.buffer, m) ELSE fh.buffer
  BY <1>1, <1>3, <1>4, WrittenHelper
<1>6. /\ time < rotationTp /\ TimedLog(time)
      /\ \/ fh' \in {w, Flushed(w)}
         \/ fh.isOpen /\ WriteStops(fh, Append(fh.buffer, m), {})
  BY <1>2, <1>4, Zenon DEF LogInFile
<1>7. /\ isUp /\ nextId' = nextId + 1 /\ sink' = sink /\ now' = now /\ firstName' = firstName
      /\ isUp' = isUp /\ faults' \in {faults, faults + 1} /\ queue' = queue
      /\ namedAt' = namedAt /\ rotationTp' = rotationTp
  BY <1>6 DEF LogInFile, TimedLog, Fault
<1>8. /\ IsHelper(fh') /\ fh'.filename = fh.filename /\ fh'.isOpen = fh.isOpen
      /\ DOMAIN fh'.dir = DOMAIN fh.dir
      /\ \A e \in Range(fh'.buffer) :
           \/ e \in Range(fh.buffer)
           \/ \E x \in Range(fh.buffer) \cup {m} : e.id = x.id /\ e.time = x.time
  <2>1. fh.buffer \in Seq(Logged)
    BY <1>1 DEF IsHelper, IsRecord
  <2>2. PICK t : t = Append(fh.buffer, m)
    OBVIOUS
  <2>3. t \in Seq(Logged) /\ Range(t) \subseteq Range(fh.buffer) \cup {m}
    BY <1>3, <2>1, <2>2, BufferWithMessage
  <2>4. CASE fh' \in {w, Flushed(w)}
    <3>1. /\ IsHelper(fh') /\ fh'.filename = fh.filename /\ fh'.isOpen = fh.isOpen
          /\ DOMAIN fh'.dir = DOMAIN fh.dir
      BY <1>5, <2>4, FlushedHelper
    <3>2. w.buffer = t \/ w.buffer = fh.buffer
      BY <1>5, <2>2
    <3>3. Flushed(w).buffer = <<>>
      BY <1>5, FlushedHelper
    <3>4. PICK e : e = <<>>
      OBVIOUS
    <3>5. Range(e) = {}
      BY <3>4 DEF Range
    <3>6. Range(fh'.buffer) \subseteq Range(fh.buffer) \cup {m}
      BY <2>3, <2>4, <3>2, <3>3, <3>4, <3>5
    <3> QED
      BY <3>1, <3>6
  <2>5. CASE fh.isOpen /\ WriteStops(fh, t, {})
    <3>1. PICK none : none = {}
      OBVIOUS
    <3>2. WriteStops(fh, t, none)
      BY <2>5, <3>1
    <3>3. /\ IsHelper(fh') /\ fh'.filename = fh.filename /\ fh'.isOpen
          /\ DOMAIN fh'.dir = DOMAIN fh.dir
          /\ \A e \in Range(fh'.buffer) :
               \E x \in Range(t) : e.id = x.id /\ e.time = x.time
      BY <1>1, <2>3, <2>5, <3>2, TimedStops
    <3>4. fh'.isOpen = fh.isOpen
      BY <1>1, <2>5, <3>3 DEF IsHelper, IsRecord
    <3> QED
      BY <2>3, <3>3, <3>4
  <2> QED
    BY <1>6, <2>2, <2>4, <2>5
<1>10. UpInv
  BY <1>7 DEF TimedInv
<1>11. UpInv'
  <2>1. Untracked' = Untracked
    BY <1>7, <1>8 DEF Untracked
  <2>2. Cardinality(Untracked) \in Nat /\ faults \in Nat /\ Cardinality(Untracked) <= faults
    BY <1>10, UntrackedIsFinite, FS_CardinalityType DEF UpInv, TimedInv
  <2>3. Cardinality(Untracked') <= faults'
    BY <1>7, <2>1, <2>2
  <2> QED
    BY <1>7, <1>8, <1>10, <2>3 DEF UpInv, NameOf
<1>12. ASSUME fh'.buffer # <<>>, rotationTp' = NextRotation(namedAt')
       PROVE  fh'.filename >= NameOf(m.time - sink.rotation)
  <2>1. fh.isOpen
    BY <1>8, <1>12 DEF IsHelper
  <2>2. namedAt \in Nat /\ fh.filename = NameOf(namedAt)
    BY <1>10, <2>1 DEF UpInv
  <2>3. time < NextRotation(namedAt)
    BY <1>6, <1>7, <1>12
  <2>4. NameOf(time - sink.rotation) <= NameOf(namedAt)
    BY <1>1, <2>2, <2>3, BeforeRotationInPeriod
  <2>5. NameOf(namedAt) \in Int /\ NameOf(time - sink.rotation) \in Int
    BY <1>1, <2>2, NameIs, SinkArguments
  <2> QED
    BY <1>3, <1>8, <2>2, <2>4, <2>5
<1>13. DOMAIN fh'.dir \subseteq 0 .. NameOf(now)
  BY <1>8 DEF TimedInv
<1> QED
  BY <1>3, <1>7, <1>8, <1>11, <1>12, <1>13, MessageStep
(* At a rotation an hourly sink first removes the file it was constructed  *)
(* with, if that is still empty.                                           *)
LEMMA BeforeRotationHelper ==
  ASSUME IsHelper(fh)
  PROVE  /\ IsHelper(BeforeRotation)
         /\ DOMAIN BeforeRotation.dir \subseteq DOMAIN fh.dir
<1>1. CASE emptyAtOpen
  <2>1. PICK c : c = Closed(fh)
    OBVIOUS
  <2>2. IsHelper(c) /\ DOMAIN c.dir = DOMAIN fh.dir
    BY <2>1, ClosedHelper
  <2>3. IsHelper(Removed(c, fh.filename)) /\ DOMAIN Removed(c, fh.filename).dir \subseteq DOMAIN c.dir
    BY <2>2, RemovedHelper
  <2> QED
    BY <1>1, <2>1, <2>2, <2>3 DEF BeforeRotation
<1>2. CASE ~emptyAtOpen
  BY <1>2 DEF BeforeRotation
<1> QED
  BY <1>1, <1>2

(* The next file and the message in it.                                    *)
LEMMA NextFileHelper ==
  ASSUME TimedInv, NEW time \in 0 .. now, NEW m \in Logged
  PROVE  LET h == Opened(BeforeRotation, NameOf(time), sink.truncate)
             w == Written(h, m)
         IN  \A g \in {h, w, Removed(w, Head(queue))} :
               /\ IsHelper(g) /\ g.filename = NameOf(time)
               /\ DOMAIN g.dir \subseteq DOMAIN fh.dir \cup {NameOf(time)}
               /\ Range(g.buffer) \subseteq {m}
<1>1. PICK a, h, w : /\ a = NameOf(time)
                     /\ h = Opened(BeforeRotation, NameOf(time), sink.truncate)
                     /\ w = Written(h, m)
  OBVIOUS
<1>2. time \in Nat /\ a \in Nat /\ sink.truncate \in BOOLEAN /\ IsHelper(fh)
  BY <1>1, NameIs, SinkArguments DEF TimedInv
<1>3. IsHelper(BeforeRotation) /\ DOMAIN BeforeRotation.dir \subseteq DOMAIN fh.dir
  BY <1>2, BeforeRotationHelper
<1>4. /\ IsHelper(h) /\ h.filename = a /\ h.isOpen /\ h.buffer = <<>>
      /\ DOMAIN h.dir = DOMAIN BeforeRotation.dir \cup {a}
  BY <1>1, <1>2, <1>3, OpenedHelper
<1>5. /\ IsHelper(w) /\ w.filename = a /\ w.dir = h.dir /\ w.buffer = Append(h.buffer, m)
  BY <1>1, <1>4, WrittenHelper
<1>6. PICK e : e = <<>>
  OBVIOUS
<1>7. e \in Seq(Logged) /\ Range(e) = {}
  BY <1>6 DEF Range
<1>8. Range(h.buffer) = {} /\ Range(w.buffer) \subseteq {m}
  BY <1>4, <1>5, <1>6, <1>7, BufferWithMessage
<1>9. /\ IsHelper(Removed(w, Head(queue))) /\ Removed(w, Head(queue)).filename = w.filename
      /\ Removed(w, Head(queue)).buffer = w.buffer
      /\ DOMAIN Removed(w, Head(queue)).dir = DOMAIN w.dir \ {Head(queue)}
  BY <1>5, RemovedHelper
<1>10. DOMAIN h.dir \subseteq DOMAIN fh.dir \cup {a}
  BY <1>3, <1>4
<1>11. PICK g : g = Removed(w, Head(queue))
  OBVIOUS
<1>12. ASSUME NEW f \in {h, w, g}
       PROVE  /\ IsHelper(f) /\ f.filename = a
              /\ DOMAIN f.dir \subseteq DOMAIN fh.dir \cup {a}
              /\ Range(f.buffer) \subseteq {m}
  BY <1>4, <1>5, <1>8, <1>9, <1>10, <1>11, <1>12
<1> QED
  BY <1>1, <1>11, <1>12, Zenon

(* The first write to that file stops, of the one byte of the message.     *)
LEMMA StoppedRotation ==
  ASSUME TimedInv, NEW time \in 0 .. now, NEW h,
         h = Opened(BeforeRotation, NameOf(time), sink.truncate),
         WriteStops(h, <<Message(1, time)>>, {})
  PROVE  fh' = h
<1>1. PICK a, m, none : a = NameOf(time) /\ m = Message(1, time) /\ none = {}
  OBVIOUS
<1>2. time \in Nat /\ a \in Nat /\ sink.truncate \in BOOLEAN /\ IsHelper(fh) /\ nextId \in Nat
  BY <1>1, NameIs, SinkArguments DEF TimedInv
<1>3. IsHelper(BeforeRotation)
  BY <1>2, BeforeRotationHelper
<1>4. h = Opened(BeforeRotation, a, sink.truncate)
  BY <1>1
<1>5. IsHelper(h) /\ h.buffer = <<>>
  BY <1>2, <1>3, <1>4, OpenedHelper
<1>6. m \in Logged
  BY <1>1, <1>2, TimedMessage
<1>7. m.size = 1
  BY <1>1 DEF Message
<1>8. WriteStops(h, <<m>>, none)
  BY <1>1
<1> QED
  BY <1>5, <1>6, <1>7, <1>8, NothingOfOne

(* The files that are not in the queue when one is made and one dropped    *)
(* from the queue.                                                         *)
LEMMA UntrackedAfterRotation ==
  ASSUME TimedInv, isUp, NEW x \in Nat, firstName' = firstName,
         LET rest == IF QueueIsFull THEN Tail(queue) ELSE queue
         IN  \/ /\ queue' = Append(rest, x) /\ faults' = faults
                /\ QueueIsFull => Head(queue) \notin DOMAIN fh'.dir
             \/ queue' = Append(rest, x) /\ QueueIsFull /\ faults' = faults + 1
             \/ queue' = queue /\ faults' = faults + 1,
         DOMAIN fh'.dir \subseteq DOMAIN fh.dir \cup {x}
  PROVE  /\ queue' \in Seq(Int) /\ Len(queue') <= MaxFiles
         /\ Cardinality(Untracked') <= faults'
<1>1. /\ queue \in Seq(Int) /\ Len(queue) <= MaxFiles /\ faults \in Nat
      /\ Cardinality(Untracked) <= faults /\ MaxFiles \in Nat \ {0}
  BY TimedFileAssumption DEF TimedInv, UpInv
<1>2. PICK rest : rest = IF QueueIsFull THEN Tail(queue) ELSE queue
  OBVIOUS
<1>3. /\ rest \in Seq(Int) /\ Len(rest) < MaxFiles
      /\ IF QueueIsFull THEN Range(queue) = Range(rest) \cup {Head(queue)} ELSE Range(queue) = Range(rest)
  <2>1. PICK n : n = Len(queue)
    OBVIOUS
  <2>2. n \in Nat /\ n <= MaxFiles /\ (QueueIsFull <=> n = MaxFiles)
    BY <1>1, <2>1 DEF QueueIsFull
  <2>3. CASE QueueIsFull
    <3>1. queue # <<>>
      BY <1>1, <2>1, <2>2, <2>3
    <3>2. Tail(queue) \in Seq(Int) /\ Len(Tail(queue)) = n - 1 /\ Range(queue) = {Head(queue)} \cup Range(Tail(queue))
      BY <1>1, <2>1, <3>1, QueueNames
    <3>3. rest \in Seq(Int) /\ Len(rest) = n - 1 /\ Range(queue) = {Head(queue)} \cup Range(rest)
      BY <1>2, <2>3, <3>2
    <3> QED
      BY <2>2, <2>3, <3>3
  <2>4. CASE ~QueueIsFull
    BY <1>1, <1>2, <2>1, <2>2, <2>4
  <2> QED
    BY <2>3, <2>4
<1>4. PICK q : q = Append(rest, x)
  OBVIOUS
<1>5. /\ q \in Seq(Int) /\ Len(q) = Len(rest) + 1 /\ Range(q) = Range(rest) \cup {x}
  BY <1>3, <1>4, QueueNames
<1>6. Len(q) <= MaxFiles
  <2>1. Len(rest) \in Nat
    BY <1>3
  <2> QED
    BY <1>1, <1>3, <1>5, <2>1
<1>7. \/ queue' = q /\ faults' = faults /\ (QueueIsFull => Head(queue) \notin DOMAIN fh'.dir)
      \/ queue' = q /\ QueueIsFull /\ faults' = faults + 1
      \/ queue' = queue /\ faults' = faults + 1
  BY <1>2, <1>4
<1>8. queue' \in Seq(Int) /\ Len(queue') <= MaxFiles
  BY <1>1, <1>5, <1>6, <1>7
<1>9. PICK U, T : U = Untracked /\ T = Untracked'
  OBVIOUS
<1>10. IsFiniteSet(U) /\ Cardinality(U) <= faults
  BY <1>1, <1>9, UntrackedIsFinite
<1>11. \A n \in T : n \in DOMAIN fh'.dir /\ n >= firstName /\ n \notin Range(queue')
  BY <1>9 DEF Untracked
<1>12. \A n : n \in DOMAIN fh.dir /\ n >= firstName /\ n \notin Range(queue) => n \in U
  BY <1>9 DEF Untracked
<1>13. CASE queue' = q /\ faults' = faults /\ (QueueIsFull => Head(queue) \notin DOMAIN fh'.dir)
  <2>1. T \subseteq U
    <3>1. ASSUME NEW n \in T PROVE n \in U
      <4>1. n \in DOMAIN fh'.dir /\ n >= firstName /\ n \notin Range(rest) /\ n # x
        BY <1>5, <1>11, <1>13
      <4>2. n \in DOMAIN fh.dir
        BY <4>1
      <4>3. n \notin Range(queue)
        BY <1>3, <1>13, <4>1
      <4> QED
        BY <1>12, <4>1, <4>2, <4>3
    <3> QED
      BY <3>1
  <2> QED
    BY <1>1, <1>8, <1>9, <1>10, <1>13, <2>1, CountWithOneMore
<1>14. CASE queue' = q /\ QueueIsFull /\ faults' = faults + 1
  <2>1. T \subseteq U \cup {Head(queue)}
    <3>1. ASSUME NEW n \in T, n # Head(queue) PROVE n \in U
      <4>1. n \in DOMAIN fh'.dir /\ n >= firstName /\ n \notin Range(rest) /\ n # x
        BY <1>5, <1>11, <1>14
      <4>2. n \in DOMAIN fh.dir
        BY <4>1
      <4>3. n \notin Range(queue)
        BY <1>3, <1>14, <3>1, <4>1
      <4> QED
        BY <1>12, <4>1, <4>2, <4>3
    <3> QED
      BY <3>1
  <2> QED
    BY <1>1, <1>8, <1>9, <1>10, <1>14, <2>1, CountWithOneMore
<1>15. CASE queue' = queue /\ faults' = faults + 1
  <2>1. T \subseteq U \cup {x}
    <3>1. ASSUME NEW n \in T, n # x PROVE n \in U
      <4>1. n \in DOMAIN fh.dir /\ n >= firstName /\ n \notin Range(queue)
        BY <1>11, <1>15, <3>1
      <4> QED
        BY <1>12, <4>1
    <3> QED
      BY <3>1
  <2> QED
    BY <1>1, <1>8, <1>9, <1>10, <1>15, <2>1, CountWithOneMore
<1> QED
  BY <1>7, <1>13, <1>14, <1>15
(* A message is logged in the next file, and the oldest file deleted.      *)
LEMMA LogInNextFileStep ==
  ASSUME TimedInv, NEW time \in 0 .. now, LogInNextFile(time)
  PROVE  TimedKept
<1>1. time \in Nat /\ nextId \in Nat /\ now \in Nat /\ sink \in Sinks /\ faults \in Nat
  BY DEF TimedInv
<1>2. PICK m : m = Message(1, time)
  OBVIOUS
<1>3. m \in Logged /\ m.time = time /\ m = Message(1, m.time)
  BY <1>1, <1>2, TimedMessage
<1>4. PICK x, h, w, rest : /\ x = NameOf(time)
                           /\ h = Opened(BeforeRotation, NameOf(time), sink.truncate)
                           /\ w = Written(h, m)
                           /\ rest = IF QueueIsFull THEN Tail(queue) ELSE queue
  OBVIOUS
<1>5. /\ TimedLog(time) /\ namedAt' = time
      /\ \/ /\ fh' = IF QueueIsFull THEN Removed(w, Head(queue)) ELSE w
            /\ queue' = Append(rest, x)
            /\ UNCHANGED faults
         \/ QueueIsFull /\ Fault /\ fh' = w /\ queue' = Append(rest, x)
         \/ Fault /\ WriteStops(h, <<m>>, {}) /\ UNCHANGED queue
  <2>1. /\ TimedLog(time) /\ namedAt' = time
        /\ LET y == Message(1, time)
               g == Opened(BeforeRotation, NameOf(time), sink.truncate)
               v == Written(g, y)
               r == IF QueueIsFull THEN Tail(queue) ELSE queue
           IN  \/ /\ fh' = IF QueueIsFull THEN Removed(v, Head(queue)) ELSE v
                  /\ queue' = Append(r, NameOf(time))
                  /\ UNCHANGED faults
               \/ QueueIsFull /\ Fault /\ fh' = v /\ queue' = Append(r, NameOf(time))
               \/ Fault /\ WriteStops(g, <<y>>, {}) /\ UNCHANGED queue
    BY Zenon DEF LogInNextFile
  <2> QED
    BY <1>2, <1>4, <2>1, Zenon
<1>6. /\ isUp /\ nextId' = nextId + 1 /\ sink' = sink /\ now' = now /\ firstName' = firstName
      /\ isUp' = isUp
  BY <1>5 DEF TimedLog
<1>7. faults' \in {faults, faults + 1}
  BY <1>5 DEF Fault
<1>0. ASSUME WriteStops(h, <<m>>, {}) PROVE fh' = h
  BY <1>0, <1>2, <1>4, StoppedRotation
<1>8. fh' \in {h, w, Removed(w, Head(queue))}
  BY <1>0, <1>5
<1>9. /\ IsHelper(fh') /\ fh'.filename = x /\ Range(fh'.buffer) \subseteq {m}
      /\ DOMAIN fh'.dir \subseteq DOMAIN fh.dir \cup {x}
  <2>1. \A g \in {h, w, Removed(w, Head(queue))} :
          /\ IsHelper(g) /\ g.filename = x
          /\ DOMAIN g.dir \subseteq DOMAIN fh.dir \cup {x}
          /\ Range(g.buffer) \subseteq {m}
    <3>1. LET a == Opened(BeforeRotation, NameOf(time), sink.truncate)
              b == Written(a, m)
          IN  \A g \in {a, b, Removed(b, Head(queue))} :
                /\ IsHelper(g) /\ g.filename = NameOf(time)
                /\ DOMAIN g.dir \subseteq DOMAIN fh.dir \cup {NameOf(time)}
                /\ Range(g.buffer) \subseteq {m}
      BY <1>3, NextFileHelper, Zenon
    <3> QED
      BY <1>4, <3>1, Zenon
  <2> QED
    BY <1>8, <2>1
<1>10. x \in Nat /\ x <= NameOf(now) /\ NameOf(now) \in Nat
  BY <1>1, <1>4, NameIs, NamesAreMonotone
<1>11. DOMAIN fh'.dir \subseteq 0 .. NameOf(now)
  BY <1>9, <1>10 DEF TimedInv
<1>12. QueueIsFull => Head(queue) \notin DOMAIN Removed(w, Head(queue)).dir
  <2>1. IsHelper(w)
    BY <1>3, <1>4, NextFileHelper
  <2> QED
    BY <2>1, RemovedHelper
<1>13. /\ queue' \in Seq(Int) /\ Len(queue') <= MaxFiles
       /\ Cardinality(Untracked') <= faults'
  <2>1. \/ /\ queue' = Append(rest, x) /\ faults' = faults
           /\ QueueIsFull => Head(queue) \notin DOMAIN fh'.dir
        \/ queue' = Append(rest, x) /\ QueueIsFull /\ faults' = faults + 1
        \/ queue' = queue /\ faults' = faults + 1
    BY <1>5, <1>12 DEF Fault
  <2> QED
    BY <1>4, <1>6, <1>9, <1>10, <2>1, UntrackedAfterRotation
<1>14. UpInv'
  <2>1. firstName \in Nat
    BY <1>6 DEF TimedInv, UpInv
  <2>2. fh'.filename = NameOf(namedAt)'
    BY <1>4, <1>5, <1>9 DEF NameOf
  <2> QED
    BY <1>1, <1>5, <1>6, <1>13, <2>1, <2>2 DEF UpInv, NameOf
<1>15. fh'.filename >= NameOf(m.time - sink.rotation)
  <2>1. PICK r, t, p : r = sink.rotation /\ t = time - r /\ p = x * Period
    OBVIOUS
  <2>2. r \in Nat /\ Period \in Nat
    BY <1>1, <2>1, SinkArguments
  <2>3. time < x * Period + Period
    BY <1>1, <1>4, NameIs
  <2>4. p \in Int
    BY <1>10, <2>1, <2>2
  <2>5. t \in Int /\ t < p + Period
    BY <1>1, <2>1, <2>2, <2>3, <2>4
  <2>6. NameOf(t) <= x /\ NameOf(t) \in Int
    BY <1>10, <2>1, <2>5, NameIs
  <2> QED
    BY <1>3, <1>9, <1>10, <2>1, <2>6
<1>16. isUp' = TRUE /\ m.time \in Nat
  BY <1>1, <1>3, <1>6, <1>9 DEF TimedInv
<1>17. \A e \in Range(fh'.buffer) :
         \/ e \in Range(fh.buffer)
         \/ \E y \in Range(fh.buffer) \cup {m} : e.id = y.id /\ e.time = y.time
  BY <1>9
<1> QED
  BY <1>3, <1>6, <1>7, <1>9, <1>11, <1>14, <1>15, <1>16, <1>17, MessageStep

(* The next file cannot be opened.                                         *)
LEMMA RotationFailsStep ==
  ASSUME TimedInv, NEW time \in 0 .. now, RotationFails(time)
  PROVE  TimedKept
<1>1. time \in Nat /\ now \in Nat /\ sink \in Sinks /\ faults \in Nat /\ IsHelper(fh)
  BY DEF TimedInv
<1>2. PICK x : x = NameOf(time)
  OBVIOUS
<1>3. x \in Nat /\ x <= NameOf(now) /\ NameOf(now) \in Nat
  BY <1>1, <1>2, NameIs, NamesAreMonotone
<1>4. /\ isUp /\ fh' \in NotOpened(BeforeRotation, x, sink.truncate)
      /\ faults' = faults + 1 /\ nextId' = nextId + 1
  BY <1>2 DEF RotationFails, Fault
<1>5. /\ sink' = sink /\ isUp' = isUp /\ queue' = queue /\ namedAt' = namedAt
      /\ firstName' = firstName /\ now' = now
  BY DEF RotationFails, timedVars, sinkVars
<1>6. IsHelper(BeforeRotation) /\ DOMAIN BeforeRotation.dir \subseteq DOMAIN fh.dir
  BY <1>1, BeforeRotationHelper
<1>7. /\ IsHelper(fh') /\ ~fh'.isOpen /\ fh'.buffer = <<>>
      /\ DOMAIN fh'.dir \subseteq DOMAIN fh.dir \cup {x}
  BY <1>1, <1>3, <1>4, <1>6, NotOpenedHelper, SinkArguments
<1>8. DOMAIN fh'.dir \subseteq 0 .. NameOf(now')
  <2>1. DOMAIN fh'.dir \subseteq 0 .. NameOf(now)
    BY <1>3, <1>7 DEF TimedInv
  <2> QED
    BY <1>5, <2>1
<1>9. queue' \in Seq(Int) /\ Len(queue') <= MaxFiles /\ Cardinality(Untracked') <= faults'
  BY <1>3, <1>4, <1>5, <1>7, UntrackedAfterRotation
<1>10. UpInv'
  BY <1>4, <1>5, <1>7, <1>9 DEF TimedInv, UpInv
<1>11. Range(fh'.buffer) = {}
  <2>1. PICK e : e = <<>>
    OBVIOUS
  <2> QED
    BY <1>7, <2>1 DEF Range
<1>12. isUp' \in BOOLEAN /\ now' \in {now, now + 1} /\ faults' \in {faults, faults + 1}
       /\ nextId' \in {nextId, nextId + 1}
  BY <1>4, <1>5 DEF TimedInv
<1> QED
  BY <1>5, <1>7, <1>8, <1>10, <1>11, <1>12, QuietTimedStep

(* Every step of the daily and hourly sinks.                               *)
LEMMA TimedStep ==
  ASSUME TimedInv, [TimedNext]_<<fileVars, timedVars>>
  PROVE  TimedInv' /\ (WrittenInPeriod \/ UNCHANGED <<fileVars, timedVars>>)
<1>1. CASE UNCHANGED <<fileVars, timedVars>>
  <2>1. /\ fh' = fh /\ sink' = sink /\ now' = now /\ faults' = faults /\ nextId' = nextId
        /\ isUp' = isUp /\ queue' = queue /\ namedAt' = namedAt /\ firstName' = firstName
    BY <1>1 DEF fileVars, timedVars, sinkVars
  <2>2. Untracked' = Untracked
    BY <2>1 DEF Untracked
  <2>3. TimedInv'
    BY <2>1, <2>2 DEF TimedInv, UpInv, NameOf
  <2> QED
    BY <1>1, <2>3
<1>2. CASE Tick
  BY <1>2, TickStep DEF TimedKept
<1>3. CASE FlushTimed
  BY <1>3, FlushTimedStep DEF TimedKept
<1>4. CASE DestroyTimed \/ CrashTimed
  BY <1>4, EndTimedStep DEF TimedKept
<1>5. ASSUME NEW later \in now .. now + 1, OpenTimed(later)
      PROVE  TimedInv' /\ WrittenInPeriod
  BY <1>5, OpenTimedStep DEF TimedKept
<1>6. ASSUME NEW time \in 0 .. now,
             LogInFile(time) \/ LogInNextFile(time) \/ RotationFails(time)
      PROVE  TimedInv' /\ WrittenInPeriod
  <2>1. CASE LogInFile(time)
    BY <2>1, LogInFileStep DEF TimedKept
  <2>2. CASE LogInNextFile(time)
    BY <2>2, LogInNextFileStep DEF TimedKept
  <2>3. CASE RotationFails(time)
    BY <2>3, RotationFailsStep DEF TimedKept
  <2> QED
    BY <1>6, <2>1, <2>2, <2>3
<1> QED
  BY <1>1, <1>2, <1>3, <1>4, <1>5, <1>6 DEF TimedNext

(* The daily and hourly sinks before the first is constructed.             *)
LEMMA TimedInitially ==
  ASSUME TimedInit
  PROVE  TimedInv
<1>1. /\ fh = [dir |-> [n \in {} |-> <<>>], filename |-> 0, isOpen |-> FALSE,
               buffer |-> <<>>, unlinked |-> FALSE]
      /\ nextId = 1 /\ faults = 0 /\ sink \in Sinks /\ isUp = FALSE /\ now = 0
  BY DEF TimedInit, FileInit, NewHelper
<1>2. PICK d : d = [n \in {} |-> <<>>]
  OBVIOUS
<1>3. DOMAIN d = {} /\ d \in [{} -> Seq(Logged)]
  BY <1>2
<1>4. /\ fh = [dir |-> d, filename |-> 0, isOpen |-> FALSE, buffer |-> <<>>, unlinked |-> FALSE]
      /\ fh.dir = d /\ fh.filename = 0 /\ ~fh.isOpen /\ fh.buffer = <<>> /\ ~fh.unlinked
  BY <1>1, <1>2
<1>5. IsRecord(fh)
  BY <1>3, <1>4 DEF IsRecord
<1>6. IsHelper(fh)
  BY <1>4, <1>5 DEF IsHelper
<1>7. Range(fh.buffer) = {} /\ DOMAIN fh.dir = {}
  BY <1>3, <1>4 DEF Range
<1> QED
  BY <1>1, <1>6, <1>7 DEF TimedInv

----------------------------------------------------------------------------
(***************************************************************************)
(* For every length of a period, rotation time, number of files, delay and *)
(* number of failing calls, the daily and hourly sinks keep TimedInv.      *)
(***************************************************************************)
THEOREM TimedInvariance == TimedSpec => []TimedInv
<1>1. TimedInit => TimedInv
  BY TimedInitially
<1>2. TimedInv /\ [TimedNext]_<<fileVars, timedVars>> => TimedInv'
  BY TimedStep
<1> QED
  BY <1>1, <1>2, PTL DEF TimedSpec

(***************************************************************************)
(* A sink leaves no more than max_files_ files of its own, and one more    *)
(* for every call that failed.                                             *)
(***************************************************************************)
THEOREM OldFilesAlwaysDeleted == TimedSpec => []OldFilesAreDeleted
<1>1. ASSUME TimedInv PROVE OldFilesAreDeleted
  <2> SUFFICES ASSUME isUp
               PROVE  Cardinality({n \in DOMAIN fh.dir : n >= firstName}) <= MaxFiles + faults
    BY DEF OldFilesAreDeleted
  <2>1. PICK S, U, Q, c : /\ S = {n \in DOMAIN fh.dir : n >= firstName} /\ U = Untracked
                          /\ Q = Range(queue) /\ c = Len(queue)
    OBVIOUS
  <2>2. /\ queue \in Seq(Int) /\ c <= MaxFiles /\ c \in Nat /\ MaxFiles \in Nat /\ faults \in Nat
        /\ Cardinality(U) <= faults
    BY <1>1, <2>1, TimedFileAssumption DEF TimedInv, UpInv
  <2>3. IsFiniteSet(U) /\ IsFiniteSet(Q) /\ Cardinality(Q) <= c
    BY <1>1, <2>1, <2>2, UntrackedIsFinite, QueueNames
  <2>4. S \subseteq U \cup Q
    BY <2>1 DEF Untracked
  <2>5. PICK i, j, k : /\ i = Cardinality(U) /\ j = Cardinality(Q) /\ k = Cardinality(U \cap Q)
    OBVIOUS
  <2>6. i \in Nat /\ j \in Nat /\ k \in Nat
    <3>1. IsFiniteSet(U \cap Q)
      BY <2>3, FS_Intersection
    <3> QED
      BY <2>3, <2>5, <3>1, FS_CardinalityType
  <2>7. IsFiniteSet(U \cup Q) /\ Cardinality(U \cup Q) = i + j - k
    BY <2>3, <2>5, FS_Union
  <2>8. Cardinality(S) \in Nat /\ Cardinality(S) <= i + j - k
    BY <2>4, <2>7, FS_Subset, FS_CardinalityType
  <2> QED
    BY <2>1, <2>2, <2>3, <2>5, <2>6, <2>8
<1> QED
  BY <1>1, TimedInvariance, PTL

(***************************************************************************)
(* A message is not written to the file of a period that has ended when it *)
(* is logged.                                                              *)
(***************************************************************************)
THEOREM EachMessageAlwaysInItsPeriod == TimedSpec => EachMessageInItsPeriod
<1>1. TimedInv /\ [TimedNext]_<<fileVars, timedVars>> =>
        [\A m \in Range(fh'.buffer) :
           m.id = nextId /\ rotationTp' = NextRotation(namedAt') =>
             fh'.filename >= NameOf(m.time - sink.rotation)]_<<fileVars, timedVars>>
  BY TimedStep DEF WrittenInPeriod
<1> QED
  BY <1>1, TimedInvariance, PTL DEF TimedSpec, EachMessageInItsPeriod
----------------------------------------------------------------------------
(* What the daily and hourly sinks retain. *)

(* The earliest name that the next file may have.                          *)
Due == NameOf(rotationTp)

(* A message that is in a file, or will be.                                *)
Has(h, id) == (\E n : id \in Ids(Stored(h, n))) \/ id \in Ids(h.buffer)

Ascending(q) == \A i \in 1 .. Len(q) : \A j \in 1 .. i - 1 : q[j] < q[i]

(* The queue has files that exist, in the order of their names, but for    *)
(* the one that an hourly sink removes as it is empty.                     *)
QueueInv ==
  /\ Ascending(queue)
  /\ \A n \in Range(queue) :
       n < Due /\ (n \in DOMAIN fh.dir \/ (sink.hourly /\ n = firstName))

(* That file, and those that were emptied since in trying to open the next.*)
RemovedInv ==
  emptyAtOpen =>
    /\ sink.hourly /\ fh.buffer = <<>> /\ firstName <= fh.filename /\ firstName < Due
    /\ \A n \in Range(queue) : n <= firstName
    /\ \A n \in DOMAIN fh.dir : n > firstName \/ n = fh.filename => Stored(fh, n) = <<>>

(* What RetainsTheLastFiles rests on, when the sink rotates as the period  *)
(* begins: the next file is later than each that has messages or is in the *)
(* queue.                                                                  *)
KeepInv ==
  sink.rotation = 0 =>
    /\ ~fh.unlinked /\ (fh.isOpen => isUp)
    /\ isUp =>
         /\ rotationTp \in Nat
         /\ \A n \in DOMAIN fh.dir : Stored(fh, n) # <<>> => n < Due
         /\ fh.isOpen => fh.filename < Due
         /\ QueueInv /\ RemovedInv

(* What RetainsTheLastFiles says of a step.                                *)
Retained ==
  sink.rotation = 0 =>
    /\ \A n \in Deleted : Complete(n) # <<>> =>
         Cardinality({k \in DOMAIN fh'.dir : k > n}) >=
           (IF sink.hourly /\ \E k \in Range(queue') : ~Exists(fh', k)
            THEN MaxFiles - 1 ELSE MaxFiles)
    /\ ~fh'.unlinked
    /\ InFiles \subseteq InFiles' \cup lost' \cup (UNION {Ids(Complete(n)) : n \in Deleted})

(* The next rotation is when the next period begins.                       *)
LEMMA NextPeriod ==
  ASSUME sink \in Sinks, sink.rotation = 0, NEW t \in Nat
  PROVE  NextRotation(t) \in Nat /\ NameOf(NextRotation(t)) = NameOf(t) + 1
<1>1. PICK a, p, P, u : /\ a = NameOf(t) /\ P = Period /\ p = a * P /\ u = NextRotation(t)
  OBVIOUS
<1>2. a \in Nat /\ P \in Nat /\ P # 0
  BY <1>1, NameIs, SinkArguments
<1>3. p \in Nat /\ t < p + P /\ p <= t
  <2>1. t < NameOf(t) * Period + Period /\ NameOf(t) * Period <= t
    BY NameIs
  <2>2. p \in Nat
    BY <1>1, <1>2
  <2> QED
    BY <1>1, <2>1, <2>2
<1>4. u = p + P
  <2>1. u = IF p + 0 > t THEN p + 0 ELSE p + 0 + P
    BY <1>1 DEF NextRotation
  <2> QED
    BY <1>2, <1>3, <2>1
<1>5. NameOf(u) <= a + 1 /\ NameOf(u) \in Int
  <2>1. (a + 1) * P = p + P
    BY <1>1, <1>2
  <2>2. u \in Int /\ u < (a + 1) * P + P /\ a + 1 \in Int
    BY <1>2, <1>3, <1>4, <2>1
  <2> QED
    BY <1>1, <2>2, NameIs
<1>6. NameOf(u) > a
  <2> SUFFICES ASSUME NameOf(u) <= a PROVE FALSE
    BY <1>2, <1>5
  <2>1. PICK b, c : b = NameOf(u) /\ c = b * P
    OBVIOUS
  <2>2. b \in Int /\ c \in Int /\ u < c + P
    <3>1. u \in Int
      BY <1>2, <1>3, <1>4
    <3> QED
      BY <1>1, <1>2, <1>5, <2>1, <3>1, NameIs
  <2>3. c <= p
    <3>1. PICK k : k = a - b
      OBVIOUS
    <3>2. k \in Nat /\ a = b + k
      BY <1>2, <1>5, <2>1, <3>1
    <3>3. k * P \in Nat /\ p = c + k * P
      BY <1>1, <1>2, <2>1, <2>2, <3>2
    <3> QED
      BY <1>3, <2>2, <3>3
  <2> QED
    BY <1>2, <1>3, <1>4, <2>2, <2>3
<1> QED
  BY <1>1, <1>2, <1>3, <1>4, <1>5, <1>6

(* A queue in order has as many names as it is long, and stays in order    *)
(* when the first is taken off it or a later one is put behind.            *)
LEMMA AscendingQueue ==
  ASSUME NEW q \in Seq(Int), Ascending(q)
  PROVE  /\ Cardinality(Range(q)) = Len(q)
         /\ \A x \in Int : (\A n \in Range(q) : n < x) => Ascending(Append(q, x))
         /\ q # <<>> => /\ Ascending(Tail(q))
                        /\ \A n \in Range(Tail(q)) : Head(q) < n
<1>1. PICK n : n = Len(q)
  OBVIOUS
<1>2. n \in Nat /\ DOMAIN q = 1 .. n /\ \A i \in 1 .. n : q[i] \in Int
  BY <1>1
<1>3. \A i \in 1 .. n : \A j \in 1 .. i - 1 : q[j] < q[i]
  BY <1>1 DEF Ascending
<1>4. Cardinality(Range(q)) = n
  <2>1. q \in Surjection(1 .. n, Range(q))
    BY <1>2 DEF Surjection, Range
  <2>2. ASSUME NEW i \in 1 .. n, NEW j \in 1 .. n, q[i] = q[j] PROVE i = j
    <3>1. CASE i < j
      BY <1>2, <1>3, <2>2, <3>1
    <3>2. CASE j < i
      BY <1>2, <1>3, <2>2, <3>2
    <3> QED
      BY <1>2, <3>1, <3>2
  <2>3. q \in Bijection(1 .. n, Range(q))
    BY <2>1, <2>2, <1>2 DEF Bijection, Injection, Surjection, IsInjective
  <2>4. ExistsBijection(1 .. n, Range(q))
    BY <2>3 DEF ExistsBijection
  <2> QED
    BY <1>2, <2>4, FS_CountingElements
<1>5. ASSUME NEW x \in Int, \A m \in Range(q) : m < x PROVE Ascending(Append(q, x))
  <2>1. PICK d : d = Append(q, x)
    OBVIOUS
  <2>2. Len(d) = n + 1 /\ d[n + 1] = x /\ \A i \in 1 .. n : d[i] = q[i]
    BY <1>1, <2>1
  <2>3. \A i \in 1 .. n : q[i] < x
    BY <1>2, <1>5 DEF Range
  <2>4. ASSUME NEW i \in 1 .. n + 1, NEW j \in 1 .. i - 1 PROVE d[j] < d[i]
    <3>1. j \in 1 .. n /\ d[j] = q[j]
      BY <1>2, <2>2
    <3>2. CASE i = n + 1
      BY <2>2, <2>3, <3>1, <3>2
    <3>3. CASE i \in 1 .. n
      BY <1>3, <2>2, <3>1, <3>3
    <3> QED
      BY <1>2, <3>2, <3>3
  <2> QED
    BY <2>1, <2>2, <2>4 DEF Ascending
<1>6. ASSUME q # <<>> PROVE Ascending(Tail(q)) /\ \A m \in Range(Tail(q)) : Head(q) < m
  <2>1. PICK t : t = Tail(q)
    OBVIOUS
  <2>2. n # 0
    BY <1>1, <1>6, EmptySeq
  <2>3. /\ DOMAIN t = 1 .. n - 1 /\ Len(t) = n - 1 /\ Head(q) = q[1]
        /\ \A i \in 1 .. n - 1 : t[i] = q[i + 1]
    BY <1>1, <1>2, <1>6, <2>1, <2>2
  <2>4. ASSUME NEW i \in 1 .. n - 1 PROVE q[1] < t[i]
    <3>1. i + 1 \in 1 .. n /\ 1 \in 1 .. (i + 1) - 1
      BY <1>2
    <3> QED
      BY <1>3, <2>3, <3>1
  <2>5. ASSUME NEW i \in 1 .. n - 1, NEW j \in 1 .. i - 1 PROVE t[j] < t[i]
    <3>1. i + 1 \in 1 .. n /\ j + 1 \in 1 .. (i + 1) - 1 /\ j \in 1 .. n - 1
      BY <1>2
    <3> QED
      BY <1>3, <2>3, <3>1
  <2> QED
    BY <2>1, <2>3, <2>4, <2>5 DEF Ascending, Range
<1> QED
  BY <1>1, <1>4, <1>5, <1>6

(* The queue of a new sink has files that exist, in the order of their     *)
(* names.                                                                  *)
LEMMA InitQueueAscends ==
  ASSUME NEW h, NEW time \in Nat
  PROVE  /\ Ascending(InitQueue(h, time))
         /\ \A n \in Range(InitQueue(h, time)) : n <= NameOf(time) /\ Exists(h, n)
<1>1. PICK last, S : /\ last = NameOf(time)
                     /\ S = {k \in 0 .. MaxFiles : \A j \in 0 .. k - 1 : Exists(h, last - j)}
  OBVIOUS
<1>2. last \in Int /\ MaxFiles \in Nat /\ MaxFiles # 0
  BY <1>1, NameIs, TimedFileAssumption
<1>3. S \in SUBSET (0 .. MaxFiles) /\ 0 \in S /\ \A k \in S : 0 .. k \subseteq S
  BY <1>1, <1>2
<1>4. PICK size : size = Max(S)
  OBVIOUS
<1>5. size \in S /\ size \in 0 .. MaxFiles
  BY <1>2, <1>3, <1>4, LargestWithoutGaps
<1>6. PICK q : q = [i \in 1 .. size |-> last - size + i]
  OBVIOUS
<1>7. InitQueue(h, time) = q
  BY <1>1, <1>4, <1>6, Zenon DEF InitQueue
<1>8. DOMAIN q = 1 .. size /\ Len(q) = size /\ \A i \in 1 .. size : q[i] = last - size + i
  BY <1>2, <1>5, <1>6
<1>9. ASSUME NEW i \in 1 .. size PROVE q[i] <= last /\ Exists(h, q[i])
  <2>1. PICK j : j = size - i
    OBVIOUS
  <2>2. j \in 0 .. size - 1 /\ q[i] = last - j
    BY <1>2, <1>5, <1>8, <2>1
  <2>3. Exists(h, last - j)
    BY <1>1, <1>5, <2>2
  <2> QED
    BY <1>2, <1>5, <2>2, <2>3
<1>10. ASSUME NEW i \in 1 .. size, NEW j \in 1 .. i - 1 PROVE q[j] < q[i]
  <2>1. j \in 1 .. size
    BY <1>5
  <2> QED
    BY <1>2, <1>5, <1>8, <2>1
<1> QED
  BY <1>1, <1>7, <1>8, <1>9, <1>10 DEF Ascending, Range
(* Closing a file writes the buffer to it.                                 *)
LEMMA ClosedStores ==
  ASSUME NEW h, IsHelper(h), ~h.unlinked
  PROVE  /\ \A n : Stored(Closed(h), n) =
                     IF h.isOpen /\ n = h.filename
                     THEN Stored(h, n) \o h.buffer ELSE Stored(h, n)
         /\ \A n : Stored(Closed(h), n) # <<>> =>
              n \in DOMAIN h.dir /\ (Stored(h, n) # <<>> \/ (h.isOpen /\ n = h.filename))
         /\ \A n : Stored(Closed(h), n) = Stored(Flushed(h), n)
<1>1. \A n : Stored(Closed(h), n) = Stored(Flushed(h), n)
  BY ClosedHelper
<1>2. \A n : Stored(Flushed(h), n) = IF h.isOpen /\ ~h.unlinked /\ n = h.filename
                                     THEN Stored(h, n) \o h.buffer ELSE Stored(h, n)
  BY FlushedHelper
<1>3. \A n : Stored(Closed(h), n) # <<>> => n \in DOMAIN h.dir
  <2>1. DOMAIN Closed(h).dir = DOMAIN h.dir
    BY ClosedHelper
  <2> QED
    BY <2>1 DEF Stored, Exists
<1> QED
  BY <1>1, <1>2, <1>3

(* Closing and flushing lose nothing.                                      *)
LEMMA ClosedHas ==
  ASSUME NEW h, IsHelper(h), ~h.unlinked, NEW id, Has(h, id)
  PROVE  /\ \E n : id \in Ids(Stored(Closed(h), n))
         /\ Has(Flushed(h), id)
<1>1. PICK f, b : f = h.filename /\ b = h.buffer
  OBVIOUS
<1>2. b \in Seq(Logged) /\ \A n : Stored(h, n) \in Seq(Logged)
  <2>1. PICK e : e = <<>>
    OBVIOUS
  <2>2. e \in Seq(Logged)
    BY <2>1
  <2> QED
    BY <1>1, <2>1, <2>2 DEF IsHelper, IsRecord, Stored, Exists
<1>3. \A n : Stored(Closed(h), n) = IF h.isOpen /\ n = f THEN Stored(h, n) \o b ELSE Stored(h, n)
  BY <1>1, ClosedStores
<1>4. PICK s : s = Stored(h, f)
  OBVIOUS
<1>5. Ids(s \o b) = Ids(s) \cup Ids(b)
  BY <1>2, <1>4, IdsOfParts
<1>6. \E n : id \in Ids(Stored(Closed(h), n))
  <2>1. CASE id \in Ids(b)
    <3>1. b # <<>>
      BY <2>1, IdsOfParts
    <3>2. h.isOpen
      BY <1>1, <3>1 DEF IsHelper
    <3>3. Stored(Closed(h), f) = s \o b
      BY <1>3, <1>4, <3>2
    <3> QED
      BY <1>5, <2>1, <3>3
  <2>2. CASE \E n : id \in Ids(Stored(h, n))
    <3>1. PICK n : id \in Ids(Stored(h, n))
      BY <2>2
    <3>2. CASE n = f
      <4>1. id \in Ids(s) /\ id \in Ids(s \o b)
        BY <1>4, <1>5, <3>1, <3>2
      <4>2. Stored(Closed(h), f) = s \o b \/ Stored(Closed(h), f) = s
        BY <1>3, <1>4
      <4> QED
        BY <4>1, <4>2
    <3>3. CASE n # f
      BY <1>3, <3>1, <3>3
    <3> QED
      BY <3>2, <3>3
  <2> QED
    BY <1>1, <2>1, <2>2 DEF Has
<1> QED
  BY <1>6, ClosedStores DEF Has

(* The messages of a helper, as InFiles has them.                          *)
LEMMA FilesHave ==
  ASSUME NEW h, NEW id
  PROVE  id \in (UNION {Ids(h.dir[n]) : n \in DOMAIN h.dir}) \cup Ids(h.buffer) <=> Has(h, id)
<1>1. (\E n : id \in Ids(Stored(h, n))) <=> \E n \in DOMAIN h.dir : id \in Ids(h.dir[n])
  BY IdsOfParts DEF Stored, Exists
<1> QED
  BY <1>1 DEF Has

(* What a file has is what it has once it is closed.                       *)
LEMMA CompleteIs ==
  ASSUME IsHelper(fh)
  PROVE  \A n \in DOMAIN fh.dir : Complete(n) = Stored(Closed(fh), n)
  BY ClosedHelper DEF Complete, Stored, Exists

(* A step that deletes no file and loses no message.                       *)
LEMMA NothingDeleted ==
  ASSUME ~fh'.unlinked, Deleted = {},
         \A id : Has(fh, id) => Has(fh', id) \/ id \in lost'
  PROVE  Retained
<1>1. InFiles \subseteq InFiles' \cup lost'
  BY FilesHave DEF InFiles
<1> QED
  BY <1>1 DEF Retained

(* Opening a file keeps the messages, but for those that it truncates.     *)
LEMMA OpenedHas ==
  ASSUME NEW h, IsHelper(h), ~h.unlinked, NEW name \in Nat, NEW truncate \in BOOLEAN,
         NEW g, g = Opened(h, name, truncate) \/ g \in NotOpened(h, name, truncate),
         NEW id, Has(h, id)
  PROVE  Has(g, id) \/ (truncate /\ id \in Ids(Stored(Closed(h), name)))
<1>1. PICK n : id \in Ids(Stored(Closed(h), n))
  BY ClosedHas
<1>2. \/ \A k : Stored(g, k) = IF truncate /\ k = name THEN <<>> ELSE Stored(Closed(h), k)
      \/ \A k : Stored(g, k) = Stored(Closed(h), k)
      \/ truncate /\ \A k : Stored(g, k) = IF k = name THEN <<>> ELSE Stored(Closed(h), k)
  <2>1. CASE g = Opened(h, name, truncate)
    BY <2>1, OpenedHelper
  <2>2. CASE g \in NotOpened(h, name, truncate)
    BY <2>2, NotOpenedHelper
  <2> QED
    BY <2>1, <2>2
<1> QED
  BY <1>1, <1>2 DEF Has

(* A message written to the open file, which may be flushed.               *)
LEMMA WrittenHas ==
  ASSUME NEW h, IsHelper(h), NEW m \in Logged, NEW id
  PROVE  Has(h, id) => Has(Written(h, m), id)
<1>1. PICK w, b : w = Written(h, m) /\ b = h.buffer
  OBVIOUS
<1>2. b \in Seq(Logged)
  BY <1>1 DEF IsHelper, IsRecord
<1>3. (w.buffer = Append(b, m) \/ w.buffer = b) /\ \A n : Stored(w, n) = Stored(h, n)
  BY <1>1, WrittenHelper
<1>4. Ids(Append(b, m)) = Ids(b) \cup {m.id}
  <2>1. PICK s : s = <<m>>
    OBVIOUS
  <2>2. s \in Seq(Logged) /\ Append(b, m) = b \o s /\ Ids(s) = {m.id}
    BY <1>2, <2>1, IdsOfParts
  <2> QED
    BY <1>2, <2>2, IdsOfParts
<1> QED
  BY <1>1, <1>3, <1>4 DEF Has
(* What every step of a sink that rotates as the period begins keeps.      *)
Kept == KeepInv' /\ Retained

(* A step that leaves the sink and its files as they are, but for what is  *)
(* written to the open file.                                               *)
LEMMA SameFilesKeep ==
  ASSUME KeepInv, sink.rotation = 0, sink' = sink, isUp' = isUp, rotationTp' = rotationTp,
         queue' = queue, firstName' = firstName,
         fh'.unlinked = fh.unlinked, fh'.isOpen = fh.isOpen, fh'.filename = fh.filename,
         DOMAIN fh'.dir = DOMAIN fh.dir,
         \A n : Stored(fh', n) = Stored(fh, n) \/ (fh.isOpen /\ n = fh.filename),
         emptyAtOpen' =>
           emptyAtOpen /\ fh'.buffer = <<>> /\ \A n : Stored(fh', n) = Stored(fh, n),
         \A id : Has(fh, id) => Has(fh', id) \/ id \in lost'
  PROVE  Kept
<1>1. ~fh.unlinked /\ (fh.isOpen => isUp)
  BY DEF KeepInv
<1>2. Retained
  <2>1. Deleted = {}
    BY DEF Deleted
  <2> QED
    BY <1>1, <2>1, NothingDeleted
<1>3. ASSUME isUp
      PROVE  /\ rotationTp' \in Nat
             /\ \A n \in DOMAIN fh'.dir : Stored(fh', n) # <<>> => n < Due'
             /\ fh'.isOpen => fh'.filename < Due'
             /\ QueueInv' /\ RemovedInv'
  <2>1. /\ rotationTp \in Nat
        /\ \A n \in DOMAIN fh.dir : Stored(fh, n) # <<>> => n < Due
        /\ fh.isOpen => fh.filename < Due
        /\ QueueInv /\ RemovedInv
    BY <1>3 DEF KeepInv
  <2>2. Due' = Due
    BY DEF Due, NameOf
  <2>3. QueueInv'
    BY <2>1, <2>2 DEF QueueInv, Ascending
  <2>4. RemovedInv'
    <3> SUFFICES ASSUME emptyAtOpen'
                 PROVE  /\ sink.hourly /\ fh'.buffer = <<>> /\ firstName <= fh.filename
                        /\ firstName < Due
                        /\ \A n \in Range(queue) : n <= firstName
                        /\ \A n \in DOMAIN fh.dir :
                             n > firstName \/ n = fh.filename => Stored(fh', n) = <<>>
      BY <2>2 DEF RemovedInv, Stored, Exists
    <3> QED
      BY <2>1 DEF RemovedInv
  <2>5. \A n \in DOMAIN fh'.dir : Stored(fh', n) # <<>> => n < Due'
    BY <2>1, <2>2
  <2> QED
    BY <2>1, <2>2, <2>3, <2>4, <2>5
<1>4. KeepInv'
  <2>1. ~fh'.unlinked /\ (fh'.isOpen => isUp')
    BY <1>1
  <2>2. isUp' => /\ rotationTp' \in Nat
                 /\ \A n \in DOMAIN fh'.dir : Stored(fh', n) # <<>> => n < Due'
                 /\ fh'.isOpen => fh'.filename < Due'
                 /\ QueueInv' /\ RemovedInv'
    BY <1>3
  <2> QED
    BY <2>1, <2>2 DEF KeepInv, Stored, Exists
<1> QED
  BY <1>2, <1>4 DEF Kept

(* A write that stops keeps the files, and the messages but for those it   *)
(* reports lost.                                                           *)
LEMMA StopsKeep ==
  ASSUME NEW h, IsHelper(h), h.isOpen, ~h.unlinked, NEW t \in Seq(Logged), NEW next,
         WriteStops(h, t, next), Ids(h.buffer) \subseteq Ids(t)
  PROVE  /\ ~fh'.unlinked /\ fh'.isOpen /\ fh'.filename = h.filename
         /\ DOMAIN fh'.dir = DOMAIN h.dir
         /\ fh'.unlinked = h.unlinked /\ fh'.isOpen = h.isOpen
         /\ \A n : Stored(fh', n) = Stored(h, n) \/ n = h.filename
         /\ \A id : Has(h, id) => Has(fh', id) \/ id \in lost'
<1>1. PICK p \in Parts(t) :
        /\ fh' \in {[h EXCEPT !.buffer = p], Flushed([h EXCEPT !.buffer = p])}
        /\ lost' = lost \cup next \cup {m.id : m \in Range(t) \ Range(p)}
  BY Zenon DEF WriteStops
<1>2. PICK left : left = [h EXCEPT !.buffer = p]
  OBVIOUS
<1>3. p \in Seq(Logged) /\ Ids(t) \subseteq Ids(p) \cup {m.id : m \in Range(t) \ Range(p)}
  BY PartInOrder
<1>4. /\ IsHelper(left) /\ left.dir = h.dir /\ left.filename = h.filename /\ left.isOpen
      /\ left.unlinked = h.unlinked /\ left.buffer = p
      /\ \A n : Stored(left, n) = Stored(h, n)
  BY <1>2, <1>3, BufferedHelper
<1>5. fh' = left \/ fh' = Flushed(left)
  BY <1>1, <1>2
<1>6. /\ ~fh'.unlinked /\ fh'.isOpen /\ fh'.filename = h.filename
      /\ fh'.unlinked = h.unlinked /\ fh'.isOpen = h.isOpen
      /\ DOMAIN fh'.dir = DOMAIN h.dir
      /\ \A n : Stored(fh', n) = Stored(h, n) \/ n = h.filename
  <2>1. CASE fh' = left
    BY <1>4, <2>1
  <2>2. CASE fh' = Flushed(left)
    BY <1>4, <2>2, FlushedHelper
  <2> QED
    BY <1>5, <2>1, <2>2
<1>7. ASSUME NEW id, Has(h, id) PROVE Has(fh', id) \/ id \in lost'
  <2>1. Has(left, id) \/ id \in lost'
    <3>1. CASE id \in Ids(h.buffer)
      <4>1. id \in Ids(p) \/ id \in {m.id : m \in Range(t) \ Range(p)}
        BY <1>3, <3>1
      <4> QED
        BY <1>1, <1>4, <4>1 DEF Has
    <3>2. CASE \E n : id \in Ids(Stored(h, n))
      BY <1>4, <3>2 DEF Has
    <3> QED
      BY <1>7, <3>1, <3>2 DEF Has
  <2>2. Has(left, id) => Has(Flushed(left), id)
    BY <1>4, ClosedHas
  <2> QED
    BY <1>5, <2>1, <2>2
<1> QED
  BY <1>6, <1>7

(* Time passes, or the sink is flushed.                                    *)
LEMMA TickOrFlushKeeps ==
  ASSUME TimedInv, KeepInv, sink.rotation = 0, Tick \/ FlushTimed
  PROVE  Kept
<1>1. /\ sink' = sink /\ isUp' = isUp /\ rotationTp' = rotationTp /\ queue' = queue
      /\ firstName' = firstName /\ emptyAtOpen' = emptyAtOpen
  BY DEF Tick, FlushTimed, timedVars, sinkVars
<1>2. IsHelper(fh) /\ ~fh.unlinked
  BY DEF TimedInv, KeepInv
<1>3. CASE Tick
  <2>1. fh' = fh
    BY <1>3 DEF Tick, fileVars
  <2>2. isUp /\ emptyAtOpen => fh.buffer = <<>>
    BY DEF KeepInv, RemovedInv
  <2>3. CASE isUp
    BY <1>1, <2>1, <2>2, <2>3, SameFilesKeep
  <2>4. CASE ~isUp
    <3>1. fh.buffer = <<>>
      BY <1>2, <2>4 DEF KeepInv, IsHelper
    <3> QED
      BY <1>1, <2>1, <3>1, SameFilesKeep
  <2> QED
    BY <2>3, <2>4
<1>4. CASE FlushTimed
  <2>1. isUp /\ fh.buffer # <<>> /\ fh.isOpen /\ fh.buffer \in Seq(Logged)
    BY <1>2, <1>4 DEF FlushTimed, IsHelper, IsRecord
  <2>2. ~emptyAtOpen
    BY <2>1 DEF KeepInv, RemovedInv
  <2>3. CASE fh' = Flushed(fh)
    <3>1. /\ fh'.unlinked = fh.unlinked /\ fh'.isOpen = fh.isOpen /\ fh'.filename = fh.filename
          /\ DOMAIN fh'.dir = DOMAIN fh.dir
          /\ \A n : Stored(fh', n) = Stored(fh, n) \/ (fh.isOpen /\ n = fh.filename)
      BY <1>2, <2>3, FlushedHelper
    <3>2. \A id : Has(fh, id) => Has(fh', id)
      BY <1>2, <2>3, ClosedHas
    <3> QED
      BY <1>1, <2>2, <3>1, <3>2, SameFilesKeep
  <2>4. CASE WriteStops(fh, fh.buffer, {})
    <3>1. PICK none : none = {}
      OBVIOUS
    <3>2. WriteStops(fh, fh.buffer, none)
      BY <2>4, <3>1
    <3>3. /\ fh'.unlinked = fh.unlinked /\ fh'.isOpen = fh.isOpen /\ fh'.filename = fh.filename
          /\ DOMAIN fh'.dir = DOMAIN fh.dir
          /\ \A n : Stored(fh', n) = Stored(fh, n) \/ n = fh.filename
          /\ \A id : Has(fh, id) => Has(fh', id) \/ id \in lost'
      BY <1>2, <2>1, <3>2, StopsKeep
    <3> QED
      BY <1>1, <1>2, <2>1, <2>2, <3>3, SameFilesKeep
  <2> QED
    BY <1>4, <2>3, <2>4 DEF FlushTimed
<1> QED
  BY <1>3, <1>4

(* A message is logged in the file that is open.                           *)
LEMMA LogInFileKeeps ==
  ASSUME TimedInv, KeepInv, sink.rotation = 0, NEW time \in 0 .. now, LogInFile(time)
  PROVE  Kept
<1>1. time \in Nat /\ nextId \in Nat /\ IsHelper(fh) /\ ~fh.unlinked
  BY DEF TimedInv, KeepInv
<1>2. PICK m : m = Message(1, time)
  OBVIOUS
<1>3. m \in Logged
  BY <1>1, <1>2, TimedMessage
<1>4. PICK w : w = Written(fh, m)
  OBVIOUS
<1>5. /\ IsHelper(w) /\ w.dir = fh.dir /\ w.filename = fh.filename /\ w.isOpen = fh.isOpen
      /\ w.unlinked = fh.unlinked /\ \A n : Stored(w, n) = Stored(fh, n)
  BY <1>1, <1>3, <1>4, WrittenHelper
<1>6. /\ TimedLog(time)
      /\ \/ fh' \in {w, Flushed(w)}
         \/ fh.isOpen /\ WriteStops(fh, Append(fh.buffer, m), {})
  BY <1>2, <1>4, Zenon DEF LogInFile
<1>7. /\ sink' = sink /\ isUp' = isUp /\ rotationTp' = rotationTp /\ queue' = queue
      /\ firstName' = firstName /\ emptyAtOpen' = FALSE
  BY <1>6 DEF LogInFile, TimedLog
<1>8. /\ fh'.unlinked = fh.unlinked /\ fh'.isOpen = fh.isOpen /\ fh'.filename = fh.filename
      /\ DOMAIN fh'.dir = DOMAIN fh.dir
      /\ \A n : Stored(fh', n) = Stored(fh, n) \/ (fh.isOpen /\ n = fh.filename)
      /\ \A id : Has(fh, id) => Has(fh', id) \/ id \in lost'
  <2>1. CASE fh' \in {w, Flushed(w)}
    <3>1. /\ fh'.unlinked = fh.unlinked /\ fh'.isOpen = fh.isOpen /\ fh'.filename = fh.filename
          /\ DOMAIN fh'.dir = DOMAIN fh.dir
          /\ \A n : Stored(fh', n) = Stored(fh, n) \/ (fh.isOpen /\ n = fh.filename)
      <4>1. CASE fh' = Flushed(w)
        BY <1>5, <4>1, FlushedHelper
      <4>2. CASE fh' = w
        BY <1>5, <4>2
      <4> QED
        BY <2>1, <4>1, <4>2
    <3>2. ASSUME NEW id, Has(fh, id) PROVE Has(fh', id)
      <4>1. Has(w, id)
        BY <1>1, <1>3, <1>4, <3>2, WrittenHas
      <4>2. Has(Flushed(w), id)
        BY <1>1, <1>5, <4>1, ClosedHas
      <4> QED
        BY <2>1, <4>1, <4>2
    <3> QED
      BY <3>1, <3>2
  <2>2. CASE fh.isOpen /\ WriteStops(fh, Append(fh.buffer, m), {})
    <3>1. PICK t, b, s, none : /\ b = fh.buffer /\ s = <<m>> /\ t = Append(b, m) /\ none = {}
      OBVIOUS
    <3>2. b \in Seq(Logged) /\ s \in Seq(Logged) /\ t = b \o s
      <4>1. b \in Seq(Logged)
        BY <1>1, <3>1 DEF IsHelper, IsRecord
      <4> QED
        BY <1>3, <3>1, <4>1
    <3>3. t \in Seq(Logged) /\ Ids(b) \subseteq Ids(t)
      BY <3>2, IdsOfParts
    <3>4. WriteStops(fh, t, none) /\ Ids(fh.buffer) \subseteq Ids(t)
      BY <2>2, <3>1, <3>3
    <3>5. /\ fh'.unlinked = fh.unlinked /\ fh'.isOpen = fh.isOpen /\ fh'.filename = fh.filename
          /\ DOMAIN fh'.dir = DOMAIN fh.dir
          /\ \A n : Stored(fh', n) = Stored(fh, n) \/ n = fh.filename
          /\ \A id : Has(fh, id) => Has(fh', id) \/ id \in lost'
      BY <1>1, <2>2, <3>3, <3>4, StopsKeep
    <3> QED
      BY <1>1, <2>2, <3>4, <3>5
  <2> QED
    BY <1>6, <2>1, <2>2
<1> QED
  BY <1>7, <1>8, SameFilesKeep

(* The sink is destroyed, or its process dies.                             *)
LEMMA EndKeeps ==
  ASSUME TimedInv, KeepInv, sink.rotation = 0, DestroyTimed \/ CrashTimed
  PROVE  Kept
<1>1. IsHelper(fh) /\ ~fh.unlinked
  BY DEF TimedInv, KeepInv
<1>2. sink' = sink /\ isUp' = FALSE
  BY DEF DestroyTimed, CrashTimed, EndSink
<1>3. fh' = Closed(fh) \/ (fh' = Crashed(fh) /\ lost' = lost \cup Ids(fh.buffer))
  BY DEF DestroyTimed, CrashTimed
<1>4. ~fh'.isOpen /\ ~fh'.unlinked /\ DOMAIN fh'.dir = DOMAIN fh.dir
  BY <1>1, <1>3, ClosedHelper, CrashedHelper
<1>5. ASSUME NEW id, Has(fh, id) PROVE Has(fh', id) \/ id \in lost'
  <2>1. CASE fh' = Closed(fh)
    BY <1>1, <1>5, <2>1, ClosedHas DEF Has
  <2>2. CASE fh' = Crashed(fh) /\ lost' = lost \cup Ids(fh.buffer)
    <3>1. \A n : Stored(fh', n) = Stored(fh, n)
      BY <1>1, <2>2, CrashedHelper
    <3> QED
      BY <1>5, <2>2, <3>1 DEF Has
  <2> QED
    BY <1>3, <2>1, <2>2
<1>6. Retained
  <2>1. Deleted = {}
    BY <1>4 DEF Deleted
  <2> QED
    BY <1>4, <1>5, <2>1, NothingDeleted
<1>7. KeepInv'
  BY <1>2, <1>4 DEF KeepInv
<1> QED
  BY <1>6, <1>7 DEF Kept
(* The sink is constructed.                                                *)
LEMMA OpenTimedKeeps ==
  ASSUME TimedInv, KeepInv, sink.rotation = 0,
         NEW later \in now .. now + 1, OpenTimed(later)
  PROVE  Kept
<1>1. PICK a, b, h : /\ a = NameOf(now) /\ b = NameOf(later)
                     /\ h = Opened(fh, NameOf(now), sink.truncate)
  OBVIOUS
<1>2. /\ later \in Nat /\ a \in Nat /\ b \in Nat /\ a <= b
      /\ IsHelper(fh) /\ ~fh.unlinked /\ ~fh.isOpen /\ sink \in Sinks
  <2>1. now \in Nat /\ later \in Nat /\ now <= later
    BY DEF TimedInv
  <2>2. a \in Nat /\ b \in Nat /\ a <= b
    BY <1>1, <2>1, NameIs, NamesAreMonotone
  <2>3. ~isUp
    BY DEF OpenTimed
  <2> QED
    BY <2>1, <2>2, <2>3 DEF TimedInv, KeepInv
<1>3. /\ fh' = h /\ queue' = InitQueue(h, later)
      /\ emptyAtOpen' = (sink.hourly /\ FileSize(h) = 0)
      /\ isUp' = TRUE /\ rotationTp' = NextRotation(later) /\ firstName' = a /\ sink' = sink
      /\ lost' = lost \cup (IF sink.truncate /\ Exists(fh, a) THEN Ids(fh.dir[a]) ELSE {})
  BY <1>1, Zenon DEF OpenTimed
<1>4. /\ IsHelper(h) /\ h.filename = a /\ h.isOpen /\ ~h.unlinked /\ h.buffer = <<>>
      /\ DOMAIN h.dir = DOMAIN fh.dir \cup {a}
  <2>1. sink.truncate \in BOOLEAN /\ h = Opened(fh, a, sink.truncate)
    BY <1>1, <1>2, SinkArguments
  <2> QED
    BY <1>2, <2>1, OpenedHelper
<1>5. \A n \in DOMAIN h.dir : n \in Nat /\ n <= a
  BY <1>1, <1>2, <1>4 DEF TimedInv
<1>6. ASSUME NEW id, Has(fh, id) PROVE Has(fh', id) \/ id \in lost'
  <2>1. Has(h, id) \/ (sink.truncate /\ id \in Ids(Stored(Closed(fh), a)))
    BY <1>1, <1>2, <1>6, SinkArguments, OpenedHas
  <2>2. Stored(Closed(fh), a) = Stored(fh, a)
    BY <1>2, ClosedStores
  <2>3. id \in Ids(Stored(fh, a)) => Exists(fh, a) /\ Stored(fh, a) = fh.dir[a]
    BY IdsOfParts DEF Stored
  <2> QED
    BY <1>3, <2>1, <2>2, <2>3
<1>7. Retained
  <2>1. Deleted = {}
    BY <1>3, <1>4 DEF Deleted
  <2> QED
    BY <1>3, <1>4, <1>6, <2>1, NothingDeleted
<1>8. rotationTp' \in Nat /\ Due' = b + 1
  <2>1. NextRotation(later) \in Nat /\ NameOf(NextRotation(later)) = b + 1
    BY <1>1, <1>2, NextPeriod
  <2> QED
    BY <1>3, <2>1 DEF Due, NameOf
<1>9. Ascending(queue') /\ \A n \in Range(queue') : n <= b /\ n \in DOMAIN h.dir
  BY <1>1, <1>2, <1>3, InitQueueAscends DEF Exists
<1>10. QueueInv'
  <2>1. \A n \in Range(queue') : n < Due' /\ n \in DOMAIN fh'.dir
    BY <1>2, <1>3, <1>5, <1>8, <1>9
  <2> QED
    BY <1>9, <2>1 DEF QueueInv, Ascending
<1>11. RemovedInv'
  <2> SUFFICES ASSUME emptyAtOpen'
               PROVE  /\ sink.hourly /\ h.buffer = <<>> /\ a <= h.filename /\ a < b + 1
                      /\ \A n \in Range(queue') : n <= a
                      /\ \A n \in DOMAIN h.dir : n > a \/ n = h.filename => Stored(h, n) = <<>>
    BY <1>3, <1>8 DEF RemovedInv, Stored, Exists
  <2>1. sink.hourly /\ FileSize(h) = 0
    BY <1>3
  <2>2. h.dir[a] \in Seq(Logged) /\ SizeOf(h.dir[a]) = 0
    BY <1>4, <2>1 DEF IsHelper, IsRecord, FileSize
  <2>3. h.dir[a] = <<>>
    BY <2>2, SizeOfParts
  <2>4. \A n \in DOMAIN h.dir : n > a \/ n = h.filename => Stored(h, n) = <<>>
    BY <1>2, <1>4, <1>5, <2>3 DEF Stored
  <2> QED
    BY <1>2, <1>4, <1>5, <1>9, <2>1, <2>4
<1>12. KeepInv'
  <2>1. \A n \in DOMAIN fh'.dir : n < Due'
    BY <1>2, <1>3, <1>5, <1>8
  <2>2. fh'.filename < Due'
    BY <1>2, <1>3, <1>4, <1>8
  <2>3. ~fh'.unlinked /\ isUp'
    BY <1>3, <1>4
  <2> QED
    BY <1>8, <1>10, <1>11, <2>1, <2>2, <2>3 DEF KeepInv
<1> QED
  BY <1>7, <1>12 DEF Kept

(* What a rotation finds once the file that an hourly sink was constructed *)
(* with is removed: nothing is gone, and the next file has no message.     *)
LEMMA BeforeRotationKeeps ==
  ASSUME TimedInv, KeepInv, sink.rotation = 0, isUp
  PROVE  LET b == BeforeRotation
         IN  /\ IsHelper(b) /\ ~b.unlinked /\ DOMAIN b.dir \subseteq DOMAIN fh.dir
             /\ \A n : Stored(Closed(b), n) = Stored(Closed(fh), n)
             /\ \A n : Stored(Closed(b), n) # <<>> => n \in DOMAIN b.dir /\ n < Due
             /\ \A n \in DOMAIN fh.dir : n \in DOMAIN b.dir \/ Complete(n) = <<>>
             /\ \A n \in Range(queue) :
                  n < Due /\ (n \in DOMAIN b.dir \/ (sink.hourly /\ n = firstName))
             /\ \A id : Has(fh, id) => Has(b, id)
<1>1. PICK b, c, f : b = BeforeRotation /\ c = Closed(fh) /\ f = fh.filename
  OBVIOUS
<1>2. /\ IsHelper(fh) /\ ~fh.unlinked /\ rotationTp \in Nat
      /\ \A n \in DOMAIN fh.dir : Stored(fh, n) # <<>> => n < Due
      /\ fh.isOpen => f < Due
      /\ QueueInv /\ RemovedInv
  BY <1>1 DEF TimedInv, KeepInv
<1>3. \A n : Stored(c, n) # <<>> => n \in DOMAIN fh.dir /\ n < Due
  BY <1>1, <1>2, ClosedStores
<1>4. \A n \in DOMAIN fh.dir : Complete(n) = Stored(c, n)
  BY <1>1, <1>2, CompleteIs
<1>5. CASE ~emptyAtOpen
  <2>1. b = fh
    BY <1>1, <1>5 DEF BeforeRotation
  <2>2. /\ IsHelper(b) /\ ~b.unlinked /\ DOMAIN b.dir \subseteq DOMAIN fh.dir
        /\ \A n : Stored(Closed(b), n) = Stored(Closed(fh), n)
        /\ \A n : Stored(Closed(b), n) # <<>> => n \in DOMAIN b.dir /\ n < Due
        /\ \A n \in DOMAIN fh.dir : n \in DOMAIN b.dir \/ Complete(n) = <<>>
        /\ \A n \in Range(queue) :
             n < Due /\ (n \in DOMAIN b.dir \/ (sink.hourly /\ n = firstName))
        /\ \A id : Has(fh, id) => Has(b, id)
    BY <1>1, <1>2, <1>3, <2>1 DEF QueueInv
  <2> QED
    BY <1>1, <2>2
<1>6. CASE emptyAtOpen
  <2>1. /\ sink.hourly /\ fh.buffer = <<>> /\ firstName <= f
        /\ \A n \in Range(queue) : n <= firstName
        /\ \A n \in DOMAIN fh.dir : n > firstName \/ n = f => Stored(fh, n) = <<>>
    BY <1>1, <1>2, <1>6 DEF RemovedInv
  <2>2. /\ IsHelper(c) /\ c.filename = f /\ ~c.isOpen /\ c.buffer = <<>> /\ ~c.unlinked
        /\ DOMAIN c.dir = DOMAIN fh.dir
    BY <1>1, <1>2, ClosedHelper
  <2>3. b = Removed(c, f)
    BY <1>1, <1>6 DEF BeforeRotation
  <2>4. /\ IsHelper(b) /\ ~b.unlinked /\ ~b.isOpen /\ b.buffer = <<>>
        /\ DOMAIN b.dir = DOMAIN fh.dir \ {f}
        /\ \A n : Stored(b, n) = IF n = f THEN <<>> ELSE Stored(c, n)
    BY <2>2, <2>3, RemovedHelper
  <2>5. Stored(c, f) = <<>>
    <3>1. Stored(fh, f) = <<>>
      BY <2>1 DEF Stored, Exists
    <3>2. PICK e : e = <<>>
      OBVIOUS
    <3>3. e \o e = e
      BY <3>2
    <3>4. Stored(c, f) = Stored(fh, f) \o fh.buffer \/ Stored(c, f) = Stored(fh, f)
      BY <1>1, <1>2, ClosedStores
    <3> QED
      BY <2>1, <3>1, <3>2, <3>3, <3>4
  <2>6. \A n : Stored(b, n) = Stored(c, n)
    BY <2>4, <2>5
  <2>7. \A n : Stored(Closed(b), n) = Stored(b, n)
    BY <2>4, ClosedStores
  <2>8. \A n \in Range(queue) : n \in DOMAIN b.dir \/ (sink.hourly /\ n = firstName)
    <3>1. queue \in Seq(Int) /\ firstName \in Nat /\ DOMAIN fh.dir \subseteq Nat
      BY DEF TimedInv, UpInv, IsHelper, IsRecord
    <3>2. f \in Nat
      BY <1>1, <1>2 DEF IsHelper, IsRecord
    <3>3. ASSUME NEW n \in Range(queue), n # firstName PROVE n \in DOMAIN b.dir
      <4>1. n \in Int /\ n <= firstName
        BY <2>1, <3>1 DEF Range
      <4>2. n # f
        BY <2>1, <3>1, <3>2, <3>3, <4>1
      <4> QED
        BY <1>2, <2>4, <3>3, <4>2 DEF QueueInv
    <3> QED
      BY <2>1, <3>3
  <2>9. \A id : Has(fh, id) => Has(b, id)
    BY <1>1, <1>2, <2>6, ClosedHas DEF Has
  <2>10. \A n : Stored(Closed(b), n) # <<>> => n \in DOMAIN b.dir /\ n < Due
    BY <1>3, <2>4, <2>5, <2>6, <2>7
  <2>11. \A n \in DOMAIN fh.dir : n \in DOMAIN b.dir \/ Complete(n) = <<>>
    BY <1>4, <2>4, <2>5
  <2>12. \A n \in Range(queue) : n < Due
    BY <1>2 DEF QueueInv
  <2>13. /\ IsHelper(b) /\ ~b.unlinked /\ DOMAIN b.dir \subseteq DOMAIN fh.dir
         /\ \A n : Stored(Closed(b), n) = Stored(Closed(fh), n)
    BY <1>1, <2>4, <2>6, <2>7
  <2> QED
    BY <1>1, <2>8, <2>9, <2>10, <2>11, <2>12, <2>13
<1> QED
  BY <1>5, <1>6
(* The next file cannot be opened.                                         *)
LEMMA RotationFailsKeeps ==
  ASSUME TimedInv, KeepInv, sink.rotation = 0, NEW time \in 0 .. now, RotationFails(time)
  PROVE  Kept
<1>1. PICK x, b : x = NameOf(time) /\ b = BeforeRotation
  OBVIOUS
<1>2. /\ sink' = sink /\ isUp' = isUp /\ rotationTp' = rotationTp /\ queue' = queue
      /\ firstName' = firstName /\ emptyAtOpen' = emptyAtOpen
  BY DEF RotationFails, timedVars, sinkVars
<1>3. /\ fh' \in NotOpened(b, x, sink.truncate) /\ isUp /\ rotationTp <= time
      /\ IsHelper(fh) /\ sink.truncate \in BOOLEAN /\ time \in Nat
  <2>1. time >= rotationTp /\ rotationTp \in Nat /\ time \in Nat
    BY DEF RotationFails, TimedInv, KeepInv
  <2>2. fh' \in NotOpened(b, x, sink.truncate) /\ isUp
    BY <1>1 DEF RotationFails
  <2> QED
    BY <2>1, <2>2, SinkArguments DEF TimedInv
<1>4. x \in Nat /\ Due \in Nat /\ Due <= x
  BY <1>1, <1>3, NameIs, NamesAreMonotone DEF KeepInv, Due
<1>5. /\ IsHelper(b) /\ ~b.unlinked /\ DOMAIN b.dir \subseteq DOMAIN fh.dir
      /\ \A n : Stored(Closed(b), n) = Stored(Closed(fh), n)
      /\ \A n : Stored(Closed(b), n) # <<>> => n \in DOMAIN b.dir /\ n < Due
      /\ \A n \in DOMAIN fh.dir : n \in DOMAIN b.dir \/ Complete(n) = <<>>
      /\ \A n \in Range(queue) :
           n < Due /\ (n \in DOMAIN b.dir \/ (sink.hourly /\ n = firstName))
      /\ \A id : Has(fh, id) => Has(b, id)
  BY <1>1, <1>3, BeforeRotationKeeps
<1>6. ~(x < Due) /\ Stored(Closed(b), x) = <<>>
  BY <1>4, <1>5
<1>7. /\ IsHelper(fh') /\ fh'.filename = x /\ ~fh'.isOpen /\ ~fh'.unlinked
      /\ fh'.buffer = <<>>
      /\ DOMAIN fh'.dir = DOMAIN b.dir \/ DOMAIN fh'.dir = DOMAIN b.dir \cup {x}
      /\ \A n : Stored(fh', n) = Stored(Closed(b), n)
  <2>1. /\ IsHelper(fh') /\ fh'.filename = x /\ ~fh'.isOpen /\ ~fh'.unlinked
        /\ fh'.buffer = <<>>
        /\ \/ /\ DOMAIN fh'.dir = DOMAIN b.dir
              /\ \A n : Stored(fh', n) = Stored(Closed(b), n)
           \/ /\ sink.truncate
              /\ DOMAIN fh'.dir = DOMAIN b.dir \cup {x}
              /\ \A n : Stored(fh', n) = IF n = x THEN <<>> ELSE Stored(Closed(b), n)
    BY <1>3, <1>4, <1>5, NotOpenedHelper
  <2> QED
    BY <1>6, <2>1
<1>8. ASSUME NEW id, Has(fh, id) PROVE Has(fh', id)
  <2>1. \E n : id \in Ids(Stored(Closed(b), n))
    BY <1>5, <1>8, ClosedHas
  <2> QED
    BY <1>7, <2>1 DEF Has
<1>9. \A n \in Deleted : Complete(n) = <<>>
  BY <1>5, <1>7 DEF Deleted
<1>10. Retained
  <2>1. InFiles \subseteq InFiles'
    BY <1>8, FilesHave DEF InFiles
  <2> QED
    BY <1>7, <1>9, <2>1 DEF Retained
<1>11. Due' = Due
  BY <1>2 DEF Due, NameOf
<1>12. QueueInv'
  <2>1. Ascending(queue)
    BY <1>3 DEF KeepInv, QueueInv
  <2>2. \A n \in Range(queue) : n < Due /\ (n \in DOMAIN fh'.dir \/ (sink.hourly /\ n = firstName))
    BY <1>5, <1>7
  <2> QED
    BY <1>2, <1>11, <2>1, <2>2 DEF QueueInv, Ascending
<1>13. RemovedInv'
  <2> SUFFICES ASSUME emptyAtOpen
               PROVE  /\ sink.hourly /\ fh'.buffer = <<>> /\ firstName <= x /\ firstName < Due
                      /\ \A n \in Range(queue) : n <= firstName
                      /\ \A n \in DOMAIN fh'.dir : n > firstName \/ n = x => Stored(fh', n) = <<>>
    BY <1>2, <1>7, <1>11 DEF RemovedInv, Stored, Exists
  <2>1. /\ sink.hourly /\ fh.buffer = <<>> /\ firstName < Due
        /\ \A n \in Range(queue) : n <= firstName
        /\ \A n \in DOMAIN fh.dir : n > firstName \/ n = fh.filename => Stored(fh, n) = <<>>
    BY <1>3 DEF KeepInv, RemovedInv
  <2>2. firstName <= x /\ firstName \in Nat /\ DOMAIN b.dir \subseteq Nat
    BY <1>3, <1>4, <1>5, <2>1 DEF TimedInv, UpInv, IsHelper, IsRecord
  <2>3. ASSUME NEW n, n > firstName \/ n = x, Stored(fh', n) # <<>> PROVE FALSE
    <3>1. Stored(Closed(b), n) # <<>> /\ n \in DOMAIN fh.dir /\ n # x
      BY <1>5, <1>6, <1>7, <2>3
    <3>2. Stored(fh, n) = <<>>
      BY <2>1, <2>3, <3>1
    <3>3. PICK e : e = <<>>
      OBVIOUS
    <3>4. e \o e = e
      BY <3>3
    <3>5. ~fh.unlinked
      BY DEF KeepInv
    <3>6. Stored(Closed(fh), n) = Stored(fh, n) \o fh.buffer \/ Stored(Closed(fh), n) = Stored(fh, n)
      BY <1>3, <3>5, ClosedStores
    <3> QED
      BY <1>5, <2>1, <3>1, <3>2, <3>3, <3>4, <3>6
  <2> QED
    BY <1>7, <2>1, <2>2, <2>3
<1>14. KeepInv'
  <2>1. \A n \in DOMAIN fh'.dir : Stored(fh', n) # <<>> => n < Due'
    BY <1>5, <1>7, <1>11
  <2>2. rotationTp' \in Nat
    BY <1>2, <1>3 DEF KeepInv
  <2> QED
    BY <1>7, <1>12, <1>13, <2>1, <2>2 DEF KeepInv, Stored, Exists
<1> QED
  BY <1>10, <1>14 DEF Kept
(* The files that are left when the first of a full queue is deleted and x *)
(* is made: as many as are in the queue, but for one.                      *)
LEMMA LaterFiles ==
  ASSUME NEW q \in Seq(Int), Ascending(q), Len(q) = MaxFiles, NEW x \in Int,
         \A n \in Range(q) : n < x, NEW D, IsFiniteSet(D), x \in D
  PROVE  /\ Range(Tail(q)) \subseteq D => Cardinality({k \in D : k > Head(q)}) >= MaxFiles
         /\ \A e : Range(Tail(q)) \subseteq D \cup {e} =>
              Cardinality({k \in D : k > Head(q)}) >= MaxFiles - 1
<1>1. PICK M, T, K : M = MaxFiles /\ T = Range(Tail(q)) /\ K = {k \in D : k > Head(q)}
  OBVIOUS
<1>2. M \in Nat /\ M # 0
  BY <1>1, TimedFileAssumption
<1>3. q # <<>>
  BY <1>1, <1>2
<1>4. /\ Tail(q) \in Seq(Int) /\ Len(Tail(q)) = M - 1 /\ Head(q) \in Int
      /\ Range(q) = {Head(q)} \cup T /\ IsFiniteSet(T)
  BY <1>1, <1>3, QueueNames
<1>5. Ascending(Tail(q)) /\ \A n \in T : Head(q) < n
  BY <1>1, <1>3, AscendingQueue
<1>6. Cardinality(T) = M - 1
  BY <1>1, <1>4, <1>5, AscendingQueue
<1>7. x \notin T /\ x > Head(q)
  BY <1>4
<1>8. IsFiniteSet(T \cup {x}) /\ Cardinality(T \cup {x}) = M
  <2>1. Cardinality(T \cup {x}) = M - 1 + 1 /\ IsFiniteSet(T \cup {x})
    BY <1>4, <1>6, <1>7, FS_AddElement
  <2> QED
    BY <1>2, <2>1
<1>9. IsFiniteSet(K)
  BY <1>1, FS_Subset
<1>10. Cardinality(K) \in Nat
  BY <1>9, FS_CardinalityType
<1>11. ASSUME T \subseteq D PROVE Cardinality(K) >= M
  <2>1. T \cup {x} \subseteq K
    BY <1>1, <1>5, <1>7, <1>11
  <2>2. Cardinality(T \cup {x}) <= Cardinality(K)
    BY <1>9, <2>1, FS_Subset
  <2> QED
    BY <1>2, <1>8, <1>10, <2>2
<1>12. ASSUME NEW e, T \subseteq D \cup {e} PROVE Cardinality(K) >= M - 1
  <2>1. T \cup {x} \subseteq K \cup {e}
    BY <1>1, <1>5, <1>7, <1>12
  <2>2. IsFiniteSet(K \cup {e}) /\ Cardinality(K \cup {e}) <= Cardinality(K) + 1
    <3>1. /\ IsFiniteSet(K \cup {e})
          /\ Cardinality(K \cup {e}) = IF e \in K THEN Cardinality(K) ELSE Cardinality(K) + 1
      BY <1>9, FS_AddElement, Zenon
    <3> QED
      BY <1>10, <3>1
  <2>3. Cardinality(T \cup {x}) <= Cardinality(K \cup {e})
    BY <2>1, <2>2, FS_Subset
  <2>4. Cardinality(K \cup {e}) \in Nat
    BY <2>2, FS_CardinalityType
  <2> QED
    BY <1>2, <1>8, <1>10, <2>2, <2>3, <2>4
<1> QED
  BY <1>1, <1>11, <1>12

(* A message is logged in the next file, and the oldest file deleted.      *)
LEMMA LogInNextFileKeeps ==
  ASSUME TimedInv, TimedInv', KeepInv, sink.rotation = 0,
         NEW time \in 0 .. now, LogInNextFile(time)
  PROVE  Kept
<1>1. PICK m : m = Message(1, time)
  OBVIOUS
<1>2. PICK x, b, h, w, g, rest :
        /\ x = NameOf(time) /\ b = BeforeRotation
        /\ h = Opened(BeforeRotation, NameOf(time), sink.truncate)
        /\ w = Written(h, m) /\ g = Removed(w, Head(queue))
        /\ rest = IF QueueIsFull THEN Tail(queue) ELSE queue
  OBVIOUS
<1>3. /\ TimedLog(time) /\ rotationTp' = NextRotation(now) /\ time >= rotationTp
      /\ \/ /\ fh' = IF QueueIsFull THEN g ELSE w
            /\ queue' = Append(rest, x)
         \/ fh' = w /\ queue' = Append(rest, x)
         \/ WriteStops(h, <<m>>, {}) /\ queue' = queue
  <2>1. /\ TimedLog(time) /\ rotationTp' = NextRotation(now) /\ time >= rotationTp
        /\ LET y == Message(1, time)
               i == Opened(BeforeRotation, NameOf(time), sink.truncate)
               v == Written(i, y)
               r == IF QueueIsFull THEN Tail(queue) ELSE queue
           IN  \/ /\ fh' = IF QueueIsFull THEN Removed(v, Head(queue)) ELSE v
                  /\ queue' = Append(r, NameOf(time))
               \/ fh' = v /\ queue' = Append(r, NameOf(time))
               \/ WriteStops(i, <<y>>, {}) /\ queue' = queue
    BY Zenon DEF LogInNextFile
  <2> QED
    BY <1>1, <1>2, <2>1, Zenon
<1>0. ASSUME WriteStops(h, <<m>>, {}) PROVE fh' = h
  BY <1>0, <1>1, <1>2, StoppedRotation
<1>4. /\ isUp /\ isUp' /\ sink' = sink /\ firstName' = firstName /\ emptyAtOpen' = FALSE
      /\ now \in Nat /\ time \in Nat /\ nextId \in Nat /\ sink \in Sinks
      /\ sink.truncate \in BOOLEAN /\ now' = now
  BY <1>3, SinkArguments DEF TimedLog, TimedInv
<1>5. m \in Logged
  BY <1>1, <1>4, TimedMessage
<1>6. x \in Nat /\ Due \in Nat /\ Due <= x
  <2>1. rotationTp \in Nat /\ rotationTp <= time
    BY <1>3, <1>4 DEF KeepInv
  <2> QED
    BY <1>2, <1>4, <2>1, NameIs, NamesAreMonotone DEF Due
<1>7. /\ IsHelper(b) /\ ~b.unlinked /\ DOMAIN b.dir \subseteq DOMAIN fh.dir
      /\ \A n : Stored(Closed(b), n) = Stored(Closed(fh), n)
      /\ \A n : Stored(Closed(b), n) # <<>> => n \in DOMAIN b.dir /\ n < Due
      /\ \A n \in DOMAIN fh.dir : n \in DOMAIN b.dir \/ Complete(n) = <<>>
      /\ \A n \in Range(queue) :
           n < Due /\ (n \in DOMAIN b.dir \/ (sink.hourly /\ n = firstName))
      /\ \A id : Has(fh, id) => Has(b, id)
  BY <1>2, <1>4, BeforeRotationKeeps
<1>8. Stored(Closed(b), x) = <<>>
  BY <1>6, <1>7
<1>9. /\ IsHelper(h) /\ h.filename = x /\ h.isOpen /\ ~h.unlinked /\ h.buffer = <<>>
      /\ DOMAIN h.dir = DOMAIN b.dir \cup {x}
      /\ \A n : Stored(h, n) = Stored(Closed(b), n)
  <2>1. /\ IsHelper(h) /\ h.filename = x /\ h.isOpen /\ ~h.unlinked /\ h.buffer = <<>>
        /\ DOMAIN h.dir = DOMAIN b.dir \cup {x}
        /\ \A n : Stored(h, n) = IF sink.truncate /\ n = x THEN <<>> ELSE Stored(Closed(b), n)
    <3>1. h = Opened(b, x, sink.truncate)
      BY <1>2, Zenon
    <3> QED
      BY <1>4, <1>6, <1>7, <3>1, OpenedHelper
  <2> QED
    BY <1>8, <2>1
<1>10. /\ IsHelper(w) /\ w.filename = x /\ w.isOpen /\ ~w.unlinked
       /\ w.dir = h.dir /\ \A n : Stored(w, n) = Stored(h, n)
  BY <1>2, <1>5, <1>9, WrittenHelper
<1>11. /\ IsHelper(g) /\ g.filename = x /\ DOMAIN g.dir = DOMAIN w.dir \ {Head(queue)}
       /\ \A n : Stored(g, n) = IF n = Head(queue) THEN <<>> ELSE Stored(w, n)
       /\ g.unlinked <=> x = Head(queue)
       /\ g.buffer = w.buffer
  BY <1>2, <1>10, RemovedHelper
<1>12. ASSUME NEW id, Has(fh, id) PROVE Has(h, id) /\ Has(w, id)
  <2>1. \E n : id \in Ids(Stored(Closed(b), n))
    BY <1>7, <1>12, ClosedHas
  <2>2. Has(h, id)
    BY <1>9, <2>1 DEF Has
  <2> QED
    BY <1>2, <1>5, <1>9, <2>2, WrittenHas
<1>13. queue \in Seq(Int) /\ Ascending(queue) /\ Len(queue) <= MaxFiles /\ MaxFiles \in Nat \ {0}
  BY <1>4, TimedFileAssumption DEF TimedInv, UpInv, KeepInv, QueueInv
<1>14. \A n \in Range(queue) : n \in Int /\ n < x
  <2>1. \A n \in Range(queue) : n \in Int
    BY <1>13 DEF Range
  <2> QED
    BY <1>6, <1>7, <2>1
<1>15. ASSUME QueueIsFull
       PROVE  /\ queue # <<>> /\ Len(queue) = MaxFiles /\ Head(queue) \in Range(queue)
              /\ Range(Tail(queue)) \subseteq Range(queue) /\ Tail(queue) \in Seq(Int)
              /\ Ascending(Tail(queue)) /\ \A n \in Range(Tail(queue)) : Head(queue) < n
              /\ ~g.unlinked
  <2>1. queue # <<>> /\ Len(queue) = MaxFiles
    BY <1>13, <1>15 DEF QueueIsFull
  <2>2. Head(queue) \in Range(queue) /\ Range(Tail(queue)) \subseteq Range(queue) /\ Tail(queue) \in Seq(Int)
    BY <1>13, <2>1, QueueNames
  <2>3. Ascending(Tail(queue)) /\ \A n \in Range(Tail(queue)) : Head(queue) < n
    BY <1>13, <2>1, AscendingQueue
  <2>4. Head(queue) # x
    BY <1>6, <1>14, <2>2
  <2> QED
    BY <1>11, <2>1, <2>2, <2>3, <2>4
<1>16. fh' \in {h, w} \/ (QueueIsFull /\ fh' = g)
  BY <1>0, <1>3
<1>17. ASSUME fh' \in {h, w} PROVE Retained
  <2>1. \A n \in Deleted : Complete(n) = <<>>
    BY <1>7, <1>9, <1>10, <1>17 DEF Deleted
  <2>2. InFiles \subseteq InFiles'
    BY <1>12, <1>17, FilesHave DEF InFiles
  <2> QED
    BY <1>9, <1>10, <1>17, <2>1, <2>2 DEF Retained
<1>18. ASSUME QueueIsFull, fh' = g PROVE Retained
  <2>12. queue' = Append(rest, x)
    <3>1. g.buffer = <<m>>
      <4>1. w.buffer = Append(h.buffer, m) /\ h.buffer = <<>>
        BY <1>2, <1>5, <1>9, WrittenHelper
      <4> QED
        BY <1>11, <4>1
    <3>2. g # h
      <4>1. h.buffer = <<>>
        BY <1>9
      <4>2. <<m>> # <<>>
        OBVIOUS
      <4> QED
        BY <3>1, <4>1, <4>2, Zenon
    <3> QED
      BY <1>0, <1>3, <1>18, <3>2
  <2>1. PICK D, first : D = DOMAIN g.dir /\ first = Head(queue)
    OBVIOUS
  <2>2. D = (DOMAIN b.dir \cup {x}) \ {first} /\ first \in Range(queue) /\ first # x /\ x \in D
    BY <1>6, <1>9, <1>10, <1>11, <1>14, <1>15, <1>18, <2>1
  <2>3. \A n \in Deleted : n = first \/ Complete(n) = <<>>
    BY <1>7, <1>18, <2>1, <2>2 DEF Deleted
  <2>4. IsFiniteSet(D)
    <3>1. PICK k : k = NameOf(now)
      OBVIOUS
    <3>2. k \in Nat
      BY <1>4, <3>1, NameIs
    <3>3. D \subseteq 0 .. k
      BY <1>4, <1>18, <2>1, <3>1 DEF TimedInv, NameOf
    <3>4. IsFiniteSet(0 .. k)
      BY <3>2, FS_Interval
    <3> QED
      BY <3>3, <3>4, FS_Subset
  <2>5. \A n \in Range(Tail(queue)) : n \in D \/ (sink.hourly /\ n = firstName)
    <3>1. ASSUME NEW n \in Range(Tail(queue)) PROVE n \in D \/ (sink.hourly /\ n = firstName)
      <4>1. n \in Range(queue) /\ first < n /\ n \in Int /\ first \in Int
        BY <1>14, <1>15, <1>18, <2>1, <2>2
      <4>2. n # first
        BY <4>1
      <4> QED
        BY <1>7, <2>2, <4>1, <4>2
    <3> QED
      BY <3>1
  <2>6. Cardinality({k \in D : k > first}) >=
          (IF sink.hourly /\ \E k \in Range(queue') : k \notin D THEN MaxFiles - 1 ELSE MaxFiles)
    <3>1. PICK K : K = {k \in D : k > Head(queue)}
      OBVIOUS
    <3>2. /\ Range(Tail(queue)) \subseteq D => Cardinality(K) >= MaxFiles
          /\ \A e : Range(Tail(queue)) \subseteq D \cup {e} => Cardinality(K) >= MaxFiles - 1
      <4>1. /\ queue \in Seq(Int) /\ Ascending(queue) /\ Len(queue) = MaxFiles /\ x \in Int
            /\ \A n \in Range(queue) : n < x
        BY <1>6, <1>13, <1>14, <1>15, <1>18
      <4> QED
        BY <2>2, <2>4, <3>1, <4>1, LaterFiles
    <3>5. Range(Tail(queue)) \subseteq Range(queue')
      <4>1. queue' = Append(Tail(queue), x)
        BY <1>2, <1>18, <2>12
      <4>2. PICK q : q = Tail(queue)
        OBVIOUS
      <4>3. q \in Seq(Int) /\ x \in Int
        BY <1>6, <1>15, <1>18, <4>2
      <4>4. Range(Append(q, x)) = Range(q) \cup {x}
        BY <4>3, QueueNames
      <4> QED
        BY <4>1, <4>2, <4>4
    <3>3. CASE sink.hourly /\ \E k \in Range(queue') : k \notin D
      <4>1. Range(Tail(queue)) \subseteq D \cup {firstName}
        BY <2>5
      <4> QED
        BY <2>1, <3>1, <3>2, <3>3, <4>1
    <3>4. CASE ~(sink.hourly /\ \E k \in Range(queue') : k \notin D)
      <4>1. Range(Tail(queue)) \subseteq D
        BY <2>5, <3>4, <3>5
      <4> QED
        BY <2>1, <3>1, <3>2, <3>4, <4>1
    <3> QED
      BY <3>3, <3>4
  <2>7. ASSUME NEW id \in InFiles
        PROVE  id \in InFiles' \cup (UNION {Ids(Complete(n)) : n \in Deleted})
    <3>1. Has(w, id)
      BY <1>12, FilesHave DEF InFiles
    <3>2. CASE Has(g, id)
      BY <1>18, <3>2, FilesHave DEF InFiles
    <3>3. CASE ~Has(g, id)
      <4>1. id \in Ids(Stored(w, first))
        BY <1>11, <2>1, <3>1, <3>3 DEF Has
      <4>2. Stored(w, first) = Stored(Closed(fh), first) /\ Stored(w, first) = Stored(Closed(b), first)
        BY <1>7, <1>9, <1>10
      <4>3. Stored(w, first) # <<>>
        BY <4>1, IdsOfParts
      <4>4. first \in DOMAIN fh.dir
        BY <1>7, <4>2, <4>3
      <4>5. first \in Deleted
        BY <1>18, <2>1, <2>2, <4>4 DEF Deleted
      <4>6. Complete(first) = Stored(w, first)
        BY <4>2, <4>4, CompleteIs DEF TimedInv
      <4> QED
        BY <4>1, <4>5, <4>6
    <3> QED
      BY <3>2, <3>3
  <2>8. ~fh'.unlinked
    BY <1>15, <1>18
  <2>9. \A n \in Deleted : Complete(n) # <<>> =>
          Cardinality({k \in DOMAIN fh'.dir : k > n}) >=
            (IF sink.hourly /\ \E k \in Range(queue') : ~Exists(fh', k)
             THEN MaxFiles - 1 ELSE MaxFiles)
    BY <1>18, <2>1, <2>3, <2>6 DEF Exists
  <2>10. InFiles \subseteq InFiles' \cup lost' \cup (UNION {Ids(Complete(n)) : n \in Deleted})
    BY <2>7
  <2> QED
    BY <2>8, <2>9, <2>10 DEF Retained
<1>19. NameOf(now) \in Nat /\ x <= NameOf(now) /\ rotationTp' \in Nat /\ Due' = NameOf(now) + 1
  <2>1. NextRotation(now) \in Nat /\ NameOf(NextRotation(now)) = NameOf(now) + 1
    BY <1>4, NextPeriod
  <2>2. NameOf(now) \in Nat /\ NameOf(time) <= NameOf(now)
    BY <1>4, NameIs, NamesAreMonotone
  <2> QED
    BY <1>2, <1>3, <2>1, <2>2 DEF Due, NameOf
<1>20. /\ ~fh'.unlinked /\ fh'.filename = x /\ x \in DOMAIN fh'.dir
       /\ \A n \in DOMAIN b.dir : n \in DOMAIN fh'.dir \/ (QueueIsFull /\ fh' = g /\ n = Head(queue))
  <2>1. CASE fh' \in {h, w}
    BY <1>9, <1>10, <2>1
  <2>2. CASE QueueIsFull /\ fh' = g
    <3>1. x # Head(queue)
      BY <1>11, <1>15, <2>2
    <3> QED
      BY <1>9, <1>10, <1>11, <1>15, <2>2, <3>1
  <2> QED
    BY <1>16, <2>1, <2>2
<1>21. \A n \in DOMAIN fh'.dir : n < Due'
  <2>1. DOMAIN fh'.dir \subseteq 0 .. NameOf(now)
    BY <1>4 DEF TimedInv, NameOf
  <2> QED
    BY <1>19, <2>1
<1>22. QueueInv'
  <2>1. \/ queue' = queue /\ fh' = h
        \/ queue' = Append(rest, x)
    BY <1>0, <1>3
  <2>2. /\ rest \in Seq(Int) /\ Ascending(rest) /\ Range(rest) \subseteq Range(queue)
        /\ QueueIsFull => \A n \in Range(rest) : n # Head(queue)
    <3>1. CASE QueueIsFull
      <4>1. \A n \in Range(Tail(queue)) : n # Head(queue)
        BY <1>14, <1>15, <3>1
      <4>2. rest = Tail(queue)
        BY <1>2, <3>1
      <4> QED
        BY <1>15, <3>1, <4>1, <4>2
    <3>2. CASE ~QueueIsFull
      BY <1>2, <1>13, <3>2
    <3> QED
      BY <3>1, <3>2
  <2>3. CASE queue' = queue /\ fh' = h
    <3>1. \A n \in Range(queue) : n < Due'
      BY <1>14, <1>6, <1>19
    <3>2. \A n \in Range(queue) : n \in DOMAIN fh'.dir \/ (sink.hourly /\ n = firstName)
      BY <1>7, <1>9, <2>3
    <3> QED
      BY <1>4, <1>13, <2>3, <3>1, <3>2 DEF QueueInv, Ascending
  <2>4. CASE queue' = Append(rest, x)
    <3>1. Range(queue') = Range(rest) \cup {x} /\ x \in Int
      BY <1>6, <2>2, <2>4, QueueNames
    <3>2. Ascending(queue')
      BY <1>14, <2>2, <2>4, <3>1, AscendingQueue
    <3>3. \A n \in Range(queue') : n < Due'
      BY <1>6, <1>14, <1>19, <2>2, <3>1
    <3>4. \A n \in Range(queue') : n \in DOMAIN fh'.dir \/ (sink.hourly /\ n = firstName)
      BY <1>7, <1>20, <2>2, <3>1
    <3> QED
      BY <1>4, <3>2, <3>3, <3>4 DEF QueueInv, Ascending
  <2> QED
    BY <2>1, <2>3, <2>4
<1>23. KeepInv'
  <2>1. fh'.filename < Due'
    BY <1>6, <1>19, <1>20
  <2>2. RemovedInv'
    BY <1>4 DEF RemovedInv
  <2> QED
    BY <1>4, <1>19, <1>20, <1>21, <1>22, <2>1, <2>2 DEF KeepInv
<1> QED
  BY <1>16, <1>17, <1>18, <1>23 DEF Kept
(* Every step, and the step that changes nothing.                          *)
LEMMA KeepStep ==
  ASSUME TimedInv, TimedInv', KeepInv, [TimedNext]_<<fileVars, timedVars>>
  PROVE  KeepInv' /\ (Retained \/ UNCHANGED <<fileVars, timedVars>>)
<1>1. CASE UNCHANGED <<fileVars, timedVars>>
  <2>1. /\ fh' = fh /\ sink' = sink /\ isUp' = isUp /\ queue' = queue /\ firstName' = firstName
        /\ rotationTp' = rotationTp /\ emptyAtOpen' = emptyAtOpen
    BY <1>1 DEF fileVars, timedVars, sinkVars
  <2>2. Due' = Due
    BY <2>1 DEF Due, NameOf
  <2>3. QueueInv' <=> QueueInv
    BY <2>1, <2>2 DEF QueueInv, Ascending
  <2>4. RemovedInv' <=> RemovedInv
    BY <2>1, <2>2 DEF RemovedInv, Stored, Exists
  <2>5. KeepInv'
    BY <2>1, <2>2, <2>3, <2>4 DEF KeepInv, Stored, Exists
  <2> QED
    BY <1>1, <2>5
<1>2. sink' = sink
  BY DEF TimedNext, Tick, FlushTimed, DestroyTimed, CrashTimed, EndSink, OpenTimed,
         LogInFile, LogInNextFile, TimedLog, RotationFails, fileVars, timedVars, sinkVars
<1>3. CASE sink.rotation # 0
  BY <1>2, <1>3 DEF KeepInv, Retained
<1>4. ASSUME sink.rotation = 0, TimedNext PROVE Kept
  <2>1. CASE Tick \/ FlushTimed
    BY <1>4, <2>1, TickOrFlushKeeps
  <2>2. CASE DestroyTimed \/ CrashTimed
    BY <1>4, <2>2, EndKeeps
  <2>3. CASE \E later \in now .. now + 1 : later <= MaxTime /\ OpenTimed(later)
    BY <1>4, <2>3, OpenTimedKeeps
  <2>4. CASE \E time \in 0 .. now :
               LogInFile(time) \/ LogInNextFile(time) \/ RotationFails(time)
    <3>1. PICK time \in 0 .. now : LogInFile(time) \/ LogInNextFile(time) \/ RotationFails(time)
      BY <2>4
    <3> QED
      BY <1>4, <3>1, LogInFileKeeps, LogInNextFileKeeps, RotationFailsKeeps
  <2> QED
    BY <1>4, <2>1, <2>2, <2>3, <2>4 DEF TimedNext
<1> QED
  BY <1>1, <1>3, <1>4 DEF Kept

(* Before the first sink is constructed there is no file.                  *)
LEMMA NothingAtFirst ==
  ASSUME TimedInit
  PROVE  KeepInv
<1>1. fh = NewHelper /\ isUp = FALSE
  BY DEF TimedInit, FileInit
<1>2. ~fh.unlinked /\ ~fh.isOpen
  BY <1>1 DEF NewHelper
<1> QED
  BY <1>1, <1>2 DEF KeepInv

(***************************************************************************)
(* A sink that rotates when the period begins deletes a file with messages *)
(* only when it leaves max_files_ later ones, one fewer for an hourly sink *)
(* whose queue has the file it removed (hourly_file_sink.h:79-82); never   *)
(* the file that it writes to; and it loses no message otherwise.          *)
(***************************************************************************)
THEOREM TheLastFilesAlwaysRetained == TimedSpec => RetainsTheLastFiles
<1>1. TimedInit => KeepInv
  BY NothingAtFirst
<1>2. TimedInv /\ TimedInv' /\ KeepInv /\ [TimedNext]_<<fileVars, timedVars>> => KeepInv'
  BY KeepStep
<1>3. TimedSpec => []KeepInv
  BY <1>1, <1>2, TimedInvariance, PTL DEF TimedSpec
<1>4. TimedInv /\ TimedInv' /\ KeepInv /\ [TimedNext]_<<fileVars, timedVars>> =>
        [sink.rotation = 0 =>
           /\ \A n \in Deleted : Complete(n) # <<>> =>
                Cardinality({k \in DOMAIN fh'.dir : k > n}) >=
                  (IF sink.hourly /\ \E k \in Range(queue') : ~Exists(fh', k)
                   THEN MaxFiles - 1 ELSE MaxFiles)
           /\ ~fh'.unlinked
           /\ InFiles \subseteq InFiles' \cup lost' \cup (UNION {Ids(Complete(n)) : n \in Deleted})
        ]_<<fileVars, timedVars>>
  BY KeepStep DEF Retained
<1> QED
  BY <1>3, <1>4, TimedInvariance, PTL DEF TimedSpec, RetainsTheLastFiles
=============================================================================
