---------------------------- MODULE LogBufferProofs ----------------------------
(***************************************************************************)
(* Theorems about LogBuffer, for any readers and any sizes of chunks,      *)
(* windows, reads and writes: that a reader gets the entries in order.     *)
(***************************************************************************)
EXTENDS LogBuffer, SequenceTheorems, TLAPS

\* How many entries are before chunk c of window w.
Base(w, c) == w * WindowSize + c * ChunkSize

\* The chunks the writer has filled, and those it has not come to.
Filled(w, c) == w < window \/ (w = window /\ c < current)
Ahead(w, c) == w > window \/ (w = window /\ c > current)

\* A chunk holds the entries of its place.
Holds(w, c) ==
    /\ \A i \in 1 .. Len(chunk[w][c]) : chunk[w][c][i] = Base(w, c) + i
    /\ Filled(w, c) => Len(chunk[w][c]) = ChunkSize
    /\ Ahead(w, c) => chunk[w][c] = <<>>

WriterInv ==
    /\ written + pending <= MaxEntries
    /\ \A w \in Windows, c \in Chunks : Holds(w, c)
    /\ written = Base(window, current) + size(window, current)
    /\ size(window, current) < ChunkSize

\* An entry e that a reader may get after the entry d.
Precedes(d, e) ==
    \/ e = d + 1
    \/ e > d /\ FirstOfWindow(d + 1) /\ FirstOfWindow(e)

\* The number of the last entry before the reader's place: it gets the one
\* after it next, if it gets that window at all.
Seen(r) ==
    IF phase[r] = "turning"
      THEN Base(at[r].window + 1, 0)
      ELSE Base(at[r].window, at[r].chunk) + cursor[r]

\* A cursor beyond its chunk is one that Buffer.Reader has counted from the
\* start of the window: nothing has been read with it.
ReaderAt(r) ==
    /\ phase[r] = "none" => got[r] = <<>>
    /\ phase[r] = "turning" => at[r].window < window /\ cursor[r] = 0
    /\ cursor[r] >= ChunkSize => got[r] = <<>> /\ at[r].chunk < ChunkCount - 1
    /\ got[r] # <<>> => Precedes(got[r][Len(got[r])], Seen(r) + 1)
    /\ \A i \in 1 .. Len(got[r]) - 1 : Precedes(got[r][i], got[r][i + 1])

ReaderInv == \A r \in Readers : ReaderAt(r)

-------------------------------------------------------------------------------
(* The arithmetic of places.                                               *)

LEMMA Sizes ==
    /\ ChunkCount \in Nat \ {0} /\ ChunkSize \in Nat \ {0} /\ MaxRead \in Nat \ {0}
    /\ MaxBatch \in Nat \ {0} /\ MaxEntries \in Nat
    /\ WindowSize \in Nat \ {0}
    /\ 0 \in Chunks /\ 0 \in Windows /\ Windows \subseteq Nat /\ Chunks \subseteq Nat
<1>1. /\ ChunkCount \in Nat \ {0} /\ ChunkSize \in Nat \ {0} /\ MaxRead \in Nat \ {0}
      /\ MaxBatch \in Nat \ {0} /\ MaxEntries \in Nat
  BY SizeAssumption
<1>2. WindowSize \in Nat \ {0}
  BY <1>1 DEF WindowSize
<1>3. 0 \in Windows
  <2>1. 0 * WindowSize = 0
    BY <1>2
  <2>2. QED BY <1>1, <2>1 DEF Windows
<1>4. QED BY <1>1, <1>2, <1>3 DEF Chunks, Windows

LEMMA Bases ==
    ASSUME NEW w \in Nat, NEW c \in Nat
    PROVE  /\ Base(w, c) \in Nat
           /\ Base(w, c + 1) = Base(w, c) + ChunkSize
           /\ Base(w, 0) = w * WindowSize
           /\ Base(w + 1, 0) = Base(w, ChunkCount - 1) + ChunkSize
           /\ w <= Base(w, 0)
<1>1. w * WindowSize \in Nat /\ c * ChunkSize \in Nat /\ w <= w * WindowSize
  BY Sizes
<1>2. (c + 1) * ChunkSize = c * ChunkSize + ChunkSize
  BY Sizes
<1>3. 0 * ChunkSize = 0
  BY Sizes
<1>4. (w + 1) * WindowSize = w * WindowSize + (ChunkCount - 1) * ChunkSize + ChunkSize
  <2>1. (ChunkCount - 1) * ChunkSize + ChunkSize = ChunkCount * ChunkSize
    BY Sizes
  <2>2. (w + 1) * WindowSize = w * WindowSize + WindowSize
    BY Sizes
  <2>3. (ChunkCount - 1) * ChunkSize \in Int
    BY Sizes
  <2>4. QED BY <1>1, <2>1, <2>2, <2>3, Sizes DEF WindowSize
<1>5. (ChunkCount - 1) * ChunkSize \in Int /\ (w + 1) * WindowSize \in Int /\ (c + 1) * ChunkSize \in Int
  BY Sizes
<1>6. QED BY <1>1, <1>2, <1>3, <1>4, <1>5, Sizes DEF Base

\* Windows come one after the other.
LEMMA BasesGrow ==
    ASSUME NEW v \in Nat, NEW w \in Nat, v <= w
    PROVE  Base(v, 0) <= Base(w, 0)
<1>1. PICK d \in Nat : w = v + d
  <2>1. w - v \in Nat /\ w = v + (w - v)
    OBVIOUS
  <2>2. QED BY <2>1
<1>2. w * WindowSize = v * WindowSize + d * WindowSize
  BY <1>1, Sizes
<1>3. d * WindowSize \in Nat /\ v * WindowSize \in Nat /\ w * WindowSize \in Nat
  BY <1>1, Sizes
<1>4. QED BY <1>2, <1>3, Bases

-------------------------------------------------------------------------------
(* The writer.                                                             *)

LEMMA WriterInitially == Init => TypeOK /\ WriterInv
<1> SUFFICES ASSUME Init PROVE TypeOK /\ WriterInv
  OBVIOUS
<1>1. TypeOK
  BY Sizes DEF Init, TypeOK, Phases
<1>2. Base(0, 0) = 0
  BY Bases, Sizes
<1>3. ASSUME NEW w \in Windows, NEW c \in Chunks PROVE Holds(w, c)
  BY <1>3, Sizes DEF Init, Holds, Filled
<1>4. QED BY <1>1, <1>2, <1>3, Sizes DEF Init, WriterInv, size

\* A round of Write appends n entries, and the position moves on when the
\* chunk is full.
LEMMA Appending ==
    ASSUME TypeOK, WriterInv, Write
    PROVE  \E n \in 1 .. pending :
             /\ size(window, current) + n <= ChunkSize
             /\ written' = written + n /\ pending' = pending - n
             /\ chunk' \in [Windows -> [Chunks -> Seq(Entries)]]
             /\ Len(chunk'[window][current]) = size(window, current) + n
             /\ \A i \in 1 .. size(window, current) + n :
                  chunk'[window][current][i] = Base(window, current) + i
             /\ \A w \in Windows, c \in Chunks :
                  w # window \/ c # current => chunk'[w][c] = chunk[w][c]
             /\ \/ /\ size(window, current) + n < ChunkSize
                   /\ current' = current /\ window' = window
                \/ /\ size(window, current) + n = ChunkSize
                   /\ current < ChunkCount - 1
                   /\ current' = current + 1 /\ window' = window
                \/ /\ size(window, current) + n = ChunkSize
                   /\ current = ChunkCount - 1
                   /\ current' = 0 /\ window' = window + 1
<1>1. /\ window \in Windows /\ current \in Chunks /\ window \in Nat /\ current \in Nat
      /\ current <= ChunkCount - 1 /\ ChunkCount \in Nat \ {0} /\ ChunkSize \in Nat \ {0}
      /\ MaxEntries \in Nat
  BY Sizes DEF TypeOK, Chunks
<1>2. chunk[window][current] \in Seq(Entries) /\ pending \in Nat /\ written \in Nat
  BY <1>1, Sizes DEF TypeOK
<1>3. PICK s \in Nat : s = Len(chunk[window][current])
  BY <1>2
<1>4. PICK b \in Nat : b = Base(window, current)
  BY <1>1, Bases
<1>5. /\ size(window, current) = s /\ s < ChunkSize /\ written = b + s
      /\ written + pending <= MaxEntries /\ pending > 0
  BY <1>3, <1>4 DEF WriterInv, Write, size
<1>6. PICK n \in 1 .. pending :
        n = Least(pending, ChunkSize - s) /\ s + n <= ChunkSize /\ written + n <= MaxEntries
  <2>1. Least(pending, ChunkSize - s) \in 1 .. pending
    BY <1>1, <1>2, <1>5 DEF Least
  <2>2. s + Least(pending, ChunkSize - s) <= ChunkSize
    BY <1>1, <1>2, <1>5 DEF Least
  <2>3. QED BY <1>1, <1>2, <1>5, <2>1, <2>2
<1>7. PICK added : added = [i \in 1 .. n |-> written + i]
  OBVIOUS
<1>8. added \in Seq(Entries) /\ Len(added) = n /\ \A i \in 1 .. n : added[i] = written + i
  <2>1. \A i \in 1 .. n : written + i \in Entries
    BY <1>1, <1>2, <1>6 DEF Entries
  <2>2. QED BY <1>2, <1>6, <1>7, <2>1
<1>9. PICK old : old = chunk[window][current]
  OBVIOUS
<1>10. PICK new : new = old \o added /\ new \in Seq(Entries) /\ Len(new) = s + n
                /\ \A i \in 1 .. s + n : new[i] = IF i <= s THEN old[i] ELSE added[i - s]
  <2>1. old \in Seq(Entries) /\ Len(old) = s
    BY <1>2, <1>3, <1>9
  <2>2. /\ old \o added \in Seq(Entries)
        /\ Len(old \o added) = Len(old) + Len(added)
        /\ \A i \in 1 .. Len(old) + Len(added) : (old \o added)[i] =
             IF i <= Len(old) THEN old[i] ELSE added[i - Len(old)]
    BY <1>8, <2>1, ConcatProperties
  <2>3. Len(old) + Len(added) = s + n
    BY <1>8, <2>1
  <2>4. QED BY <2>1, <2>2, <2>3
<1>11. ASSUME NEW i \in 1 .. s + n PROVE new[i] = b + i
  <2>1. CASE i <= s
    <3>1. i \in 1 .. Len(chunk[window][current])
      BY <1>3, <1>6, <2>1
    <3>2. new[i] = chunk[window][current][i]
      BY <1>9, <1>10, <2>1
    <3>3. QED BY <1>1, <1>4, <3>1, <3>2 DEF WriterInv, Holds
  <2>2. CASE i > s
    <3>1. i - s \in 1 .. n
      BY <1>6, <2>2
    <3>2. new[i] = added[i - s]
      BY <1>10, <2>2
    <3>3. QED BY <1>5, <1>8, <3>1, <3>2
  <2>3. QED BY <1>6, <2>1, <2>2
<1>12. chunk' = [chunk EXCEPT ![window][current] = new]
  BY <1>5, <1>6, <1>7, <1>9, <1>10 DEF Write
<1>13. /\ chunk' \in [Windows -> [Chunks -> Seq(Entries)]]
       /\ chunk'[window][current] = new
       /\ \A w \in Windows, c \in Chunks :
            w # window \/ c # current => chunk'[w][c] = chunk[w][c]
  BY <1>1, <1>10, <1>12 DEF TypeOK
<1>14. written' = written + n /\ pending' = pending - n
  BY <1>5, <1>6 DEF Write
<1>15. atEnd(s + n) <=> s + n = ChunkSize
  BY <1>1, <1>6 DEF atEnd
<1>16. /\ current < ChunkCount - 1 => (current + 1) % ChunkCount = current + 1
       /\ current = ChunkCount - 1 => (current + 1) % ChunkCount = 0
  BY <1>1
<1>17. /\ current' = IF atEnd(s + n) THEN (current + 1) % ChunkCount ELSE current
       /\ window' = IF atEnd(s + n) /\ current = ChunkCount - 1 THEN window + 1 ELSE window
  BY <1>5, <1>6 DEF Write
<1>18. \/ s + n < ChunkSize /\ current' = current /\ window' = window
       \/ /\ s + n = ChunkSize /\ current < ChunkCount - 1
          /\ current' = current + 1 /\ window' = window
       \/ /\ s + n = ChunkSize /\ current = ChunkCount - 1
          /\ current' = 0 /\ window' = window + 1
  BY <1>1, <1>6, <1>15, <1>16, <1>17
<1>19. /\ size(window, current) + n <= ChunkSize
       /\ Len(chunk'[window][current]) = size(window, current) + n
       /\ \A i \in 1 .. size(window, current) + n :
            chunk'[window][current][i] = Base(window, current) + i
  BY <1>4, <1>5, <1>6, <1>10, <1>11, <1>13
<1>20. WITNESS n \in 1 .. pending
<1>21. QED BY <1>5, <1>13, <1>14, <1>18, <1>19

\* The writer goes from chunk to chunk and from window to window without
\* leaving an entry out.
LEMMA WriterAppends ==
    ASSUME TypeOK, WriterInv, Write
    PROVE  /\ WriterInv'
           /\ window' \in Windows /\ current' \in Chunks
           /\ written' \in 0 .. MaxEntries /\ pending' \in 0 .. MaxBatch
           /\ chunk' \in [Windows -> [Chunks -> Seq(Entries)]]
           /\ \A w \in Windows, c \in Chunks :
                /\ Len(chunk'[w][c]) <= ChunkSize
                /\ Len(chunk[w][c]) <= Len(chunk'[w][c])
           /\ window <= window'
<1>1. /\ window \in Windows /\ current \in Chunks /\ window \in Nat /\ current \in Nat
      /\ current <= ChunkCount - 1 /\ ChunkCount \in Nat \ {0} /\ ChunkSize \in Nat \ {0}
      /\ MaxEntries \in Nat /\ MaxBatch \in Nat
      /\ pending \in Nat /\ pending <= MaxBatch /\ written \in Nat
      /\ chunk \in [Windows -> [Chunks -> Seq(Entries)]]
  BY Sizes DEF TypeOK, Chunks
<1>2. PICK n \in 1 .. pending :
        /\ size(window, current) + n <= ChunkSize
        /\ written' = written + n /\ pending' = pending - n
        /\ chunk' \in [Windows -> [Chunks -> Seq(Entries)]]
        /\ Len(chunk'[window][current]) = size(window, current) + n
        /\ \A i \in 1 .. size(window, current) + n :
             chunk'[window][current][i] = Base(window, current) + i
        /\ \A w \in Windows, c \in Chunks :
             w # window \/ c # current => chunk'[w][c] = chunk[w][c]
        /\ \/ /\ size(window, current) + n < ChunkSize
              /\ current' = current /\ window' = window
           \/ /\ size(window, current) + n = ChunkSize
              /\ current < ChunkCount - 1
              /\ current' = current + 1 /\ window' = window
           \/ /\ size(window, current) + n = ChunkSize
              /\ current = ChunkCount - 1
              /\ current' = 0 /\ window' = window + 1
  BY Appending
<1>3. PICK s \in Nat : s = size(window, current) /\ s = Len(chunk[window][current])
  BY <1>1 DEF size
<1>4. PICK b \in Nat :
        /\ b = Base(window, current)
        /\ Base(window, current + 1) = b + ChunkSize
        /\ current = ChunkCount - 1 => Base(window + 1, 0) = b + ChunkSize
  <2>1. /\ Base(window, current) \in Nat
        /\ Base(window, current + 1) = Base(window, current) + ChunkSize
        /\ Base(window + 1, 0) = Base(window, ChunkCount - 1) + ChunkSize
    BY <1>1, Bases
  <2>2. QED BY <2>1
<1>5. /\ written = b + s /\ s < ChunkSize /\ written + pending <= MaxEntries
      /\ written' = b + s + n /\ written' + pending' <= MaxEntries
      /\ written' \in 0 .. MaxEntries /\ pending' \in 0 .. MaxBatch
  <2>1. written = b + s /\ s < ChunkSize /\ written + pending <= MaxEntries
    BY <1>3, <1>4 DEF WriterInv
  <2>2. written' = written + n /\ pending' = pending - n
    BY <1>2
  <2>3. QED BY <1>1, <2>1, <2>2
<1>6. /\ window' \in Windows /\ current' \in Chunks /\ window <= window'
      /\ window' \in Nat /\ current' \in Nat
  <2>1. CASE window' = window
    <3>1. current' = current \/ (current < ChunkCount - 1 /\ current' = current + 1)
      BY <1>1, <1>2, <2>1
    <3>2. QED BY <1>1, <2>1, <3>1 DEF Chunks
  <2>2. CASE current = ChunkCount - 1 /\ current' = 0 /\ window' = window + 1 /\ s + n = ChunkSize
    <3>1. Base(window + 1, 0) <= MaxEntries
      <4>1. Base(window + 1, 0) = b + s + n
        BY <1>4, <2>2
      <4>2. QED BY <1>5, <4>1
    <3>2. window + 1 \in Nat /\ Base(window + 1, 0) = (window + 1) * WindowSize
          /\ window + 1 <= Base(window + 1, 0) /\ Base(window + 1, 0) \in Nat
      BY <1>1, Bases
    <3>3. window + 1 \in Windows
      BY <1>1, <3>1, <3>2 DEF Windows
    <3>4. QED BY <1>1, <2>2, <3>3, Sizes
  <2>3. QED BY <1>2, <1>3, <2>1, <2>2
<1>7. ASSUME NEW w \in Windows, NEW c \in Chunks
      PROVE  /\ Holds(w, c)'
             /\ Len(chunk'[w][c]) <= ChunkSize
             /\ Len(chunk[w][c]) <= Len(chunk'[w][c])
  <2>1. w \in Nat /\ c \in Nat /\ c <= ChunkCount - 1 /\ chunk[w][c] \in Seq(Entries)
        /\ chunk'[w][c] \in Seq(Entries) /\ Len(chunk[w][c]) <= ChunkSize
    <3>1. w \in Nat /\ c \in Nat /\ c <= ChunkCount - 1
      BY <1>1, Sizes DEF Chunks
    <3>2. chunk[w][c] \in Seq(Entries) /\ chunk'[w][c] \in Seq(Entries)
      BY <1>1, <1>2
    <3>3. Len(chunk[w][c]) <= ChunkSize
      BY DEF TypeOK
    <3>4. QED BY <3>1, <3>2, <3>3
  <2>2. CASE w = window /\ c = current
    <3>1. Len(chunk'[w][c]) = s + n /\ \A i \in 1 .. s + n : chunk'[w][c][i] = Base(w, c) + i
      BY <1>2, <1>3, <2>2
    <3>2. ~Ahead(w, c)'
      BY <1>1, <1>2, <2>1, <2>2 DEF Ahead
    <3>3. Filled(w, c)' => s + n = ChunkSize
      BY <1>1, <1>2, <1>3, <2>1, <2>2 DEF Filled
    <3>4. QED BY <1>1, <1>2, <1>3, <2>1, <2>2, <3>1, <3>2, <3>3 DEF Holds
  <2>3. CASE ~(w = window /\ c = current)
    <3>1. chunk'[w][c] = chunk[w][c]
      BY <1>2, <2>3
    <3>2. Filled(w, c)' => Filled(w, c)
      BY <1>1, <1>2, <2>1, <2>3 DEF Filled
    <3>3. Ahead(w, c)' => Ahead(w, c)
      BY <1>1, <1>2, <2>1, <2>3 DEF Ahead
    <3>4. Holds(w, c)
      BY DEF WriterInv
    <3>5. QED BY <2>1, <3>1, <3>2, <3>3, <3>4 DEF Holds
  <2>4. QED BY <2>2, <2>3
<1>8. /\ written' = Base(window', current') + size(window, current)'
      /\ size(window, current)' < ChunkSize
  <2>1. CASE s + n < ChunkSize /\ current' = current /\ window' = window
    <3>1. size(window, current)' = s + n
      BY <1>2, <1>3, <2>1 DEF size
    <3>2. Base(window', current') = b
      BY <1>4, <2>1
    <3>3. QED BY <1>5, <2>1, <3>1, <3>2
  <2>2. CASE s + n = ChunkSize /\ ~(current' = current /\ window' = window)
    <3>1. Base(window', current') = b + ChunkSize
      BY <1>1, <1>2, <1>3, <1>4, <2>2
    <3>2. Ahead(window', current') /\ ~(window' = window /\ current' = current)
      BY <1>1, <1>2, <1>3, <2>2 DEF Ahead
    <3>3. Holds(window', current')
      BY <1>6 DEF WriterInv
    <3>4. chunk'[window'][current'] = chunk[window'][current'] /\ chunk[window'][current'] = <<>>
      BY <1>2, <1>6, <3>2, <3>3 DEF Holds
    <3>5. QED BY <1>1, <1>5, <2>2, <3>1, <3>4 DEF size
  <2>3. QED BY <1>1, <1>2, <1>3, <2>1, <2>2
<1>9. WriterInv'
  BY <1>5, <1>7, <1>8 DEF WriterInv
<1>10. QED BY <1>2, <1>5, <1>6, <1>7, <1>9

-------------------------------------------------------------------------------
(* The readers.                                                            *)

\* What is known of a reader's chunk.
LEMMA HereIs ==
    ASSUME TypeOK, WriterInv, NEW r \in Readers
    PROVE  /\ at[r].window \in Windows /\ at[r].chunk \in Chunks
           /\ at[r].window \in Nat /\ at[r].chunk \in Nat /\ at[r].chunk <= ChunkCount - 1
           /\ Base(at[r].window, at[r].chunk) \in Nat
           /\ Here(r) \in Seq(Entries) /\ Len(Here(r)) <= ChunkSize /\ Len(Here(r)) \in Nat
           /\ \A i \in 1 .. Len(Here(r)) : Here(r)[i] = Base(at[r].window, at[r].chunk) + i
           /\ Len(Here(r)) = ChunkSize /\ at[r].chunk = ChunkCount - 1 => at[r].window < window
           /\ cursor[r] \in Nat /\ cursor[r] <= MaxEntries /\ got[r] \in Seq(Entries)
<1>1. at[r].window \in Windows /\ at[r].chunk \in Chunks
  BY DEF TypeOK
<1>2. /\ at[r].window \in Nat /\ at[r].chunk \in Nat /\ at[r].chunk <= ChunkCount - 1
      /\ ChunkSize \in Nat \ {0} /\ ChunkCount \in Nat \ {0} /\ MaxEntries \in Nat
  <2>1. at[r].window \in Nat
    BY <1>1, Sizes
  <2>2. ChunkSize \in Nat \ {0} /\ ChunkCount \in Nat \ {0} /\ MaxEntries \in Nat
    BY Sizes
  <2>3. at[r].chunk \in Nat /\ at[r].chunk <= ChunkCount - 1
    BY <1>1, <2>2 DEF Chunks
  <2>4. QED BY <2>1, <2>2, <2>3
<1>3. Base(at[r].window, at[r].chunk) \in Nat
  BY <1>2, Bases
<1>4. Here(r) \in Seq(Entries) /\ Len(Here(r)) <= ChunkSize
  BY <1>1 DEF TypeOK, Here
<1>5. Holds(at[r].window, at[r].chunk)
  BY <1>1 DEF WriterInv
<1>6. Len(Here(r)) \in Nat /\ \A i \in 1 .. Len(Here(r)) : Here(r)[i] = Base(at[r].window, at[r].chunk) + i
  BY <1>4, <1>5 DEF Holds, Here
<1>7. ASSUME Len(Here(r)) = ChunkSize, at[r].chunk = ChunkCount - 1
      PROVE  at[r].window < window
  <2>1. ~Ahead(at[r].window, at[r].chunk)
    BY <1>2, <1>5, <1>7 DEF Holds, Here
  <2>2. ~(at[r].window = window /\ at[r].chunk = current)
    BY <1>2, <1>7 DEF WriterInv, size, Here
  <2>3. window \in Nat /\ current \in Nat /\ current <= ChunkCount - 1
    BY Sizes DEF TypeOK, Chunks
  <2>4. QED BY <1>2, <1>7, <2>1, <2>2, <2>3 DEF Ahead
<1>8. cursor[r] \in Nat /\ cursor[r] <= MaxEntries /\ got[r] \in Seq(Entries)
  BY <1>2 DEF TypeOK
<1>9. QED BY <1>1, <1>2, <1>3, <1>4, <1>6, <1>7, <1>8

\* A reader whose place a step leaves alone is where it was.
LEMMA PlaceKept ==
    ASSUME TypeOK, NEW r \in Readers, ReaderAt(r),
           got'[r] = got[r], at'[r] = at[r], cursor'[r] = cursor[r],
           phase'[r] = "turning" <=> phase[r] = "turning",
           phase'[r] = "none" => phase[r] = "none",
           window <= window', window' \in Windows
    PROVE  ReaderAt(r)'
<1>1. window \in Nat /\ window' \in Nat /\ at[r].window \in Nat
  BY Sizes DEF TypeOK
<1>2. Seen(r)' = Seen(r)
  BY DEF Seen
<1>3. QED BY <1>1, <1>2 DEF ReaderAt

\* Reading to n moves the reader to the place after n, and the variables keep
\* their types.
LEMMA Advancing ==
    ASSUME TypeOK, WriterInv, NEW r \in Readers, ReaderAt(r),
           phase[r] \in {"idle", "woken"}, NEW n \in Nat, Advance(r, n),
           \/ n <= Len(Here(r))
           \/ n = cursor[r]
    PROVE  /\ n <= Len(Here(r)) => Seen(r)' = Base(at[r].window, at[r].chunk) + n
           /\ phase'[r] = "turning" => at'[r].window < window /\ cursor'[r] = 0
           /\ cursor'[r] < ChunkSize /\ phase'[r] # "none"
           /\ phase' \in [Readers -> Phases]
           /\ at' \in [Readers -> [window : Windows, chunk : Chunks]]
           /\ cursor' \in [Readers -> 0 .. MaxEntries]
           /\ \A q \in Readers \ {r} :
                phase'[q] = phase[q] /\ at'[q] = at[q] /\ cursor'[q] = cursor[q]
<1>1. /\ ChunkCount \in Nat \ {0} /\ ChunkSize \in Nat \ {0} /\ MaxEntries \in Nat
      /\ phase \in [Readers -> Phases] /\ at \in [Readers -> [window : Windows, chunk : Chunks]]
      /\ cursor \in [Readers -> 0 .. MaxEntries] /\ cursor[r] \in Nat /\ cursor[r] <= MaxEntries
  BY Sizes, HereIs DEF TypeOK
<1>2. PICK w \in Nat, c \in Nat : /\ w = at[r].window /\ c = at[r].chunk
                                /\ w \in Windows /\ c \in Chunks /\ c <= ChunkCount - 1
  BY HereIs
<1>3. /\ Base(w, c) \in Nat /\ Base(w, c + 1) = Base(w, c) + ChunkSize
      /\ Base(w, c + 1) \in Nat /\ c + 1 \in Nat
      /\ Base(w + 1, 0) = Base(w, ChunkCount - 1) + ChunkSize
  <2>1. c + 1 \in Nat
    OBVIOUS
  <2>2. QED BY <2>1, Bases
<1>4. n \in 0 .. MaxEntries
  <2>1. CASE n <= Len(Here(r))
    <3>1. CASE n = 0
      BY <1>1, <3>1
    <3>2. CASE n > 0
      <4>1. n \in 1 .. Len(Here(r))
        BY <2>1, <3>2, HereIs
      <4>2. Here(r)[n] = Base(w, c) + n /\ Here(r)[n] \in Entries
        BY <1>2, <4>1, HereIs
      <4>3. QED BY <1>1, <1>3, <4>2 DEF Entries
    <3>3. QED BY <3>1, <3>2
  <2>2. QED BY <1>1, <2>1
<1>5. n <= Len(Here(r)) => n <= ChunkSize
  BY <1>1, HereIs
<1>6. n >= ChunkSize /\ c = ChunkCount - 1 => w < window /\ n = ChunkSize
  <2>1. CASE n <= Len(Here(r))
    <3>1. n >= ChunkSize => Len(Here(r)) = ChunkSize /\ n = ChunkSize
      BY <1>1, <2>1, HereIs
    <3>2. QED BY <1>2, <3>1, HereIs
  <2>2. CASE n = cursor[r]
    BY <1>1, <1>2, <2>2 DEF ReaderAt
  <2>3. QED BY <2>1, <2>2
<1>7. CASE n < ChunkSize
  <2>1. ~atEnd(n)
    BY <1>1, <1>7 DEF atEnd
  <2>2. /\ cursor' = [cursor EXCEPT ![r] = n]
        /\ phase' = [phase EXCEPT ![r] = "idle"]
        /\ at' = at
    BY <2>1 DEF Advance
  <2>3. QED BY <1>1, <1>2, <1>4, <1>7, <2>2 DEF Phases, Seen
<1>8. CASE n >= ChunkSize /\ c = ChunkCount - 1
  <2>1. atEnd(n)
    BY <1>1, <1>8 DEF atEnd
  <2>2. /\ cursor' = [cursor EXCEPT ![r] = 0]
        /\ phase' = [phase EXCEPT ![r] = "turning"]
        /\ at' = at
    BY <1>2, <1>8, <2>1 DEF Advance
  <2>3. Seen(r)' = Base(w, c) + n
    BY <1>1, <1>2, <1>3, <1>6, <1>8, <2>2 DEF Seen
  <2>4. QED BY <1>1, <1>2, <1>6, <1>8, <2>2, <2>3 DEF Phases
<1>9. CASE n >= ChunkSize /\ c < ChunkCount - 1
  <2>1. atEnd(n)
    BY <1>1, <1>9 DEF atEnd
  <2>2. /\ cursor' = [cursor EXCEPT ![r] = 0]
        /\ phase' = [phase EXCEPT ![r] = "idle"]
        /\ at' = [at EXCEPT ![r].chunk = @ + 1]
    BY <1>1, <1>2, <1>9, <2>1 DEF Advance
  <2>3. c + 1 \in Chunks
    BY <1>1, <1>2, <1>9 DEF Chunks
  <2>4. /\ at'[r] = [window |-> w, chunk |-> c + 1]
        /\ at' \in [Readers -> [window : Windows, chunk : Chunks]]
        /\ \A q \in Readers \ {r} : at'[q] = at[q]
    BY <1>1, <1>2, <2>2, <2>3
  <2>5. cursor'[r] = 0 /\ phase'[r] = "idle"
    BY <1>1, <2>2
  <2>6. Seen(r)' = Base(w, c) + ChunkSize
    BY <1>3, <2>4, <2>5 DEF Seen
  <2>7. n <= Len(Here(r)) => n = ChunkSize
    BY <1>1, <1>5, <1>9
  <2>8. QED BY <1>1, <1>2, <1>9, <2>2, <2>4, <2>5, <2>6, <2>7 DEF Phases
<1>10. QED BY <1>1, <1>2, <1>7, <1>8, <1>9

\* What Read returns continues what the reader has got.
LEMMA Returning ==
    ASSUME TypeOK, WriterInv, NEW r \in Readers, ReaderAt(r),
           phase[r] \in {"idle", "woken"}, Available(r), Return(r), UNCHANGED buffer
    PROVE  /\ ReaderAt(r)'
           /\ phase' \in [Readers -> Phases]
           /\ at' \in [Readers -> [window : Windows, chunk : Chunks]]
           /\ cursor' \in [Readers -> 0 .. MaxEntries]
           /\ got' \in [Readers -> Seq(Entries)]
           /\ \A q \in Readers \ {r} :
                /\ phase'[q] = phase[q] /\ at'[q] = at[q] /\ cursor'[q] = cursor[q]
                /\ got'[q] = got[q]
<1>1. PICK k \in Nat, l \in Nat, b \in Nat :
        /\ k = cursor[r] /\ l = Len(Here(r)) /\ b = Base(at[r].window, at[r].chunk)
  BY HereIs
<1>2. k < l /\ l <= ChunkSize /\ ChunkSize \in Nat \ {0}
  BY <1>1, HereIs, Sizes DEF Available
<1>3. PICK n \in Nat : n = Least(l, k + MaxRead) /\ k < n /\ n <= l
  BY <1>1, <1>2, Sizes DEF Least
<1>4. PICK new : /\ new = SubSeq(Here(r), k + 1, n) /\ new \in Seq(Entries) /\ Len(new) = n - k
                 /\ \A i \in 1 .. n - k : new[i] = b + k + i
  <2>1. Here(r) \in Seq(Entries) /\ k + 1 \in 1 .. Len(Here(r)) + 1 /\ n \in k .. Len(Here(r))
    BY <1>1, <1>2, <1>3, HereIs
  <2>2. /\ SubSeq(Here(r), k + 1, n) \in Seq(Entries)
        /\ Len(SubSeq(Here(r), k + 1, n)) = n - k
        /\ \A i \in 1 .. n - k : SubSeq(Here(r), k + 1, n)[i] = Here(r)[k + i]
    <3>1. k + 1 \in Int /\ n \in Int /\ \A i \in (k + 1) .. n : Here(r)[i] \in Entries
      BY <1>1, <1>2, <1>3, <2>1
    <3>2. /\ SubSeq(Here(r), k + 1, n) \in Seq(Entries)
          /\ Len(SubSeq(Here(r), k + 1, n)) = IF k + 1 <= n THEN n - (k + 1) + 1 ELSE 0
          /\ \A i \in 1 .. n - (k + 1) + 1 : SubSeq(Here(r), k + 1, n)[i] = Here(r)[k + 1 + i - 1]
      BY <3>1, SubSeqProperties
    <3>3. n - (k + 1) + 1 = n - k /\ k + 1 <= n
      BY <1>3
    <3>4. \A i \in 1 .. n - k : k + 1 + i - 1 = k + i
      BY <1>3
    <3>5. QED BY <3>2, <3>3, <3>4
  <2>3. ASSUME NEW i \in 1 .. n - k PROVE SubSeq(Here(r), k + 1, n)[i] = b + k + i
    <3>1. k + i \in 1 .. Len(Here(r))
      BY <1>1, <1>3
    <3>2. Here(r)[k + i] = b + (k + i)
      BY <1>1, <3>1, HereIs
    <3>3. QED BY <2>2, <3>2
  <2>4. QED BY <2>2, <2>3
<1>5. PICK old : old = got[r] /\ old \in Seq(Entries)
  BY HereIs
<1>6. PICK m \in Nat : m = Len(old)
  BY <1>5
<1>7. PICK all : /\ all = old \o new /\ all \in Seq(Entries) /\ Len(all) = m + (n - k)
                 /\ \A i \in 1 .. m + (n - k) : all[i] = IF i <= m THEN old[i] ELSE new[i - m]
  <2>1. old \in Seq(Entries) /\ new \in Seq(Entries)
    BY <1>4, <1>5
  <2>2. /\ old \o new \in Seq(Entries)
        /\ Len(old \o new) = Len(old) + Len(new)
        /\ \A i \in 1 .. Len(old) + Len(new) : (old \o new)[i] =
             IF i <= Len(old) THEN old[i] ELSE new[i - Len(old)]
    BY <2>1, ConcatProperties
  <2>3. Len(old) + Len(new) = m + (n - k) /\ Len(old) = m
    BY <1>4, <1>6
  <2>4. QED BY <2>2, <2>3
<1>8. got' = [got EXCEPT ![r] = all] /\ Advance(r, n)
  BY <1>1, <1>3, <1>4, <1>5, <1>7 DEF Return
<1>9. /\ got' \in [Readers -> Seq(Entries)] /\ got'[r] = all
      /\ \A q \in Readers \ {r} : got'[q] = got[q]
  BY <1>7, <1>8 DEF TypeOK
<1>10. /\ Seen(r)' = b + n
       /\ phase'[r] = "turning" => at'[r].window < window /\ cursor'[r] = 0
       /\ cursor'[r] < ChunkSize /\ phase'[r] # "none"
       /\ phase' \in [Readers -> Phases]
       /\ at' \in [Readers -> [window : Windows, chunk : Chunks]]
       /\ cursor' \in [Readers -> 0 .. MaxEntries]
       /\ \A q \in Readers \ {r} :
            phase'[q] = phase[q] /\ at'[q] = at[q] /\ cursor'[q] = cursor[q]
  BY <1>1, <1>3, <1>8, Advancing
<1>11. Seen(r) = b + k
  BY <1>1 DEF Seen
<1>12. ASSUME NEW i \in 1 .. m + (n - k), i < m + (n - k)
       PROVE  Precedes(all[i], all[i + 1])
  <2>1. i + 1 \in 1 .. m + (n - k)
    BY <1>3, <1>12
  <2>2. CASE i < m
    <3>1. all[i] = old[i] /\ all[i + 1] = old[i + 1]
      BY <1>6, <1>7, <2>1, <2>2
    <3>2. i \in 1 .. m - 1
      BY <1>12, <2>2
    <3>3. QED BY <1>5, <1>6, <3>1, <3>2 DEF ReaderAt
  <2>3. CASE i = m
    <3>1. all[i] = got[r][Len(got[r])]
      BY <1>5, <1>6, <1>7, <2>3
    <3>2. all[i + 1] = new[1]
      BY <1>6, <1>7, <2>1, <2>3
    <3>3. new[1] = b + k + 1
      BY <1>3, <1>4
    <3>4. got[r] # <<>>
      BY <1>5, <1>6, <2>3
    <3>5. QED BY <1>11, <3>1, <3>2, <3>3, <3>4 DEF ReaderAt
  <2>4. CASE i > m
    <3>1. i - m \in 1 .. n - k /\ (i + 1) - m \in 1 .. n - k
      BY <1>3, <1>12, <2>4
    <3>2. all[i] = new[i - m] /\ all[i + 1] = new[(i + 1) - m]
      BY <1>6, <1>7, <2>1, <2>4
    <3>3. all[i] = b + k + (i - m) /\ all[i + 1] = b + k + ((i + 1) - m)
      BY <1>4, <3>1, <3>2
    <3>4. all[i + 1] = all[i] + 1
      BY <3>3, <1>12
    <3>5. QED BY <3>4 DEF Precedes
  <2>5. QED BY <2>2, <2>3, <2>4
<1>13. Precedes(all[Len(all)], Seen(r)' + 1)
  <2>1. all[Len(all)] = new[n - k]
    <3>1. PICK j \in 1 .. m + (n - k) : j = m + (n - k) /\ ~(j <= m) /\ j - m = n - k
      BY <1>3
    <3>2. all[j] = new[j - m]
      BY <1>7, <3>1
    <3>3. QED BY <1>7, <3>1, <3>2
  <2>2. new[n - k] = b + k + (n - k)
    <3>1. n - k \in 1 .. n - k
      BY <1>3
    <3>2. QED BY <1>4, <3>1
  <2>3. QED BY <1>3, <1>10, <2>1, <2>2 DEF Precedes
<1>14. ReaderAt(r)'
  <2>1. \A i \in 1 .. Len(all) - 1 : Precedes(all[i], all[i + 1])
    <3>1. ASSUME NEW i \in 1 .. Len(all) - 1 PROVE Precedes(all[i], all[i + 1])
      <4>1. i \in 1 .. m + (n - k) /\ i < m + (n - k)
        BY <1>3, <1>7
      <4>2. QED BY <1>12, <4>1
    <3>2. QED BY <3>1
  <2>2. window' = window
    BY DEF buffer
  <2>3. ~(cursor'[r] >= ChunkSize)
    BY <1>2, <1>10
  <2>4. QED BY <1>9, <1>10, <1>13, <2>1, <2>2, <2>3 DEF ReaderAt, Precedes, FirstOfWindow
<1>15. QED BY <1>9, <1>10, <1>14

\* A reader is opened at a place of the window of the moment.
LEMMA Opening ==
    ASSUME TypeOK, WriterInv, NEW r \in Readers, ReaderAt(r), NEW m \in History, Reader(r, m)
    PROVE  TypeOK' /\ ReaderAt(r)'
<1>1. /\ window \in Windows /\ current \in Chunks /\ window \in Nat /\ current \in Nat
      /\ current <= ChunkCount - 1 /\ ChunkSize \in Nat \ {0} /\ ChunkCount \in Nat \ {0}
      /\ MaxEntries \in Nat /\ written \in Nat /\ written <= MaxEntries /\ m \in Int
      /\ size(window, current) \in Nat /\ 0 \in Chunks
  <2>1. /\ window \in Windows /\ current \in Chunks /\ window \in Nat /\ current \in Nat
        /\ MaxEntries \in Nat /\ ChunkSize \in Nat \ {0} /\ ChunkCount \in Nat \ {0} /\ 0 \in Chunks
    BY Sizes DEF TypeOK
  <2>2. current <= ChunkCount - 1
    BY <2>1 DEF Chunks
  <2>3. written \in Nat /\ written <= MaxEntries /\ m \in Int
    BY <2>1, SizeAssumption DEF TypeOK
  <2>4. size(window, current) \in Nat
    BY <2>1 DEF TypeOK, size
  <2>5. QED BY <2>1, <2>2, <2>3, <2>4
<1>2. PICK s \in Nat : s = size(window, current) /\ s < ChunkSize
  BY <1>1 DEF WriterInv
<1>3. /\ backlog \in Nat /\ backlog <= MaxEntries /\ s <= backlog
      /\ current = 0 => backlog = s
  <2>1. current * ChunkSize \in Nat /\ window * WindowSize \in Nat
    BY <1>1, Sizes
  <2>2. current = 0 => current * ChunkSize = 0
    BY <1>1
  <2>3. written = window * WindowSize + current * ChunkSize + s
    BY <1>2 DEF WriterInv, Base
  <2>4. QED BY <1>1, <1>2, <2>1, <2>2, <2>3 DEF backlog
<1>4. /\ Start(m).chunk \in Chunks /\ Start(m).cursor \in 0 .. MaxEntries
      /\ Start(m).cursor >= ChunkSize => Start(m).chunk < ChunkCount - 1
  <2>1. CASE m = 0
    BY <1>1, <1>2, <1>3, <2>1 DEF Start
  <2>2. CASE m > 0 /\ backlog > m
    <3>1. Start(m) = [chunk |-> 0, cursor |-> backlog - m]
      BY <1>1, <2>2 DEF Start
    <3>2. backlog - m >= ChunkSize => 0 < ChunkCount - 1
      BY <1>1, <1>2, <1>3, <2>2
    <3>3. QED BY <1>1, <1>3, <2>2, <3>1, <3>2
  <2>3. CASE m # 0 /\ ~(m > 0 /\ backlog > m)
    <3>1. Start(m) = [chunk |-> 0, cursor |-> 0]
      BY <2>3 DEF Start
    <3>2. QED BY <1>1, <3>1
  <2>4. QED BY <2>1, <2>2, <2>3
<1>5. /\ phase' = [phase EXCEPT ![r] = "idle"]
      /\ at' = [at EXCEPT ![r] = [window |-> window, chunk |-> Start(m).chunk]]
      /\ cursor' = [cursor EXCEPT ![r] = Start(m).cursor]
      /\ got' = got /\ got[r] = <<>>
  BY DEF Reader, ReaderAt
<1>6. TypeOK'
  BY <1>1, <1>4, <1>5 DEF TypeOK, Reader, Phases, buffer, lock
<1>7. ReaderAt(r)'
  <2>1. phase'[r] = "idle" /\ cursor'[r] = Start(m).cursor /\ at'[r].chunk = Start(m).chunk /\ got'[r] = <<>>
    BY <1>5 DEF TypeOK
  <2>2. QED BY <1>4, <2>1 DEF ReaderAt
<1>8. QED BY <1>6, <1>7

-------------------------------------------------------------------------------
(* The theorems.                                                           *)

\* The other readers, and what no reader's step changes.
LEMMA ReaderSteps ==
    ASSUME TypeOK, WriterInv, ReaderInv, NEW r \in Readers,
           \/ \E m \in History : Reader(r, m)
           \/ ReadSome(r) \/ ReadNone(r) \/ ReadBlock(r)
           \/ Sleep(r) \/ Wake(r) \/ Turn(r)
    PROVE  TypeOK' /\ ReaderInv'
<1>1. ReaderAt(r) /\ window \in Windows /\ window \in Nat /\ 0 \in Chunks
  BY Sizes DEF ReaderInv, TypeOK
<1>2. UNCHANGED buffer /\ UNCHANGED lock /\ UNCHANGED <<closed, closing>>
      /\ registered' \in SUBSET Readers
  BY DEF Reader, ReadSome, ReadNone, ReadBlock, Sleep, Wake, Turn, TypeOK
<1>3. ASSUME ReaderAt(r)',
             \A q \in Readers \ {r} :
               /\ phase'[q] = phase[q] /\ at'[q] = at[q] /\ cursor'[q] = cursor[q]
               /\ got'[q] = got[q]
      PROVE  ReaderInv'
  <2>1. window' = window
    BY <1>2 DEF buffer
  <2>2. ASSUME NEW q \in Readers \ {r} PROVE ReaderAt(q)'
    BY <1>1, <1>3, <2>1, PlaceKept DEF ReaderInv
  <2>3. QED BY <1>3, <2>2 DEF ReaderInv
<1>4. ASSUME /\ phase' \in [Readers -> Phases]
             /\ at' \in [Readers -> [window : Windows, chunk : Chunks]]
             /\ cursor' \in [Readers -> 0 .. MaxEntries]
             /\ got' \in [Readers -> Seq(Entries)]
      PROVE  TypeOK'
  BY <1>2, <1>4 DEF TypeOK, buffer, lock
<1>5. CASE \E m \in History : Reader(r, m)
  <2>1. TypeOK' /\ ReaderAt(r)'
    BY <1>1, <1>5, Opening
  <2>2. \A q \in Readers \ {r} :
          /\ phase'[q] = phase[q] /\ at'[q] = at[q] /\ cursor'[q] = cursor[q]
          /\ got'[q] = got[q]
    BY <1>5 DEF Reader, TypeOK
  <2>3. QED BY <1>3, <2>1, <2>2
<1>6. CASE phase[r] \in {"idle", "woken"} /\ Available(r) /\ Return(r)
  BY <1>1, <1>2, <1>3, <1>4, <1>6, Returning
<1>7. CASE ReadNone(r)
  <2>1. /\ phase[r] \in {"idle", "woken"} /\ cursor[r] \in Nat /\ Advance(r, cursor[r])
        /\ atEnd(cursor[r]) /\ ~Available(r) /\ got' = got
    BY <1>7, HereIs DEF ReadNone
  <2>2. /\ phase'[r] = "turning" => at'[r].window < window /\ cursor'[r] = 0
        /\ cursor'[r] < ChunkSize /\ phase'[r] # "none"
        /\ phase' \in [Readers -> Phases]
        /\ at' \in [Readers -> [window : Windows, chunk : Chunks]]
        /\ cursor' \in [Readers -> 0 .. MaxEntries]
        /\ \A q \in Readers \ {r} :
             phase'[q] = phase[q] /\ at'[q] = at[q] /\ cursor'[q] = cursor[q]
    BY <1>1, <2>1, Advancing
  <2>3. cursor[r] >= ChunkSize
    BY <2>1 DEF atEnd
  <2>4. got[r] = <<>> /\ window' = window /\ cursor'[r] \in Nat
    BY <1>1, <1>2, <2>2, <2>3 DEF ReaderAt, buffer
  <2>5. ~(cursor'[r] >= ChunkSize)
    BY <2>2, <2>4, Sizes
  <2>6. ReaderAt(r)'
    BY <2>1, <2>2, <2>4, <2>5 DEF ReaderAt
  <2>7. got' \in [Readers -> Seq(Entries)]
    BY <2>1 DEF TypeOK
  <2>8. QED BY <1>3, <1>4, <2>1, <2>2, <2>6, <2>7
<1>8. CASE UNCHANGED place /\ phase[r] \notin {"none", "turning"}
           /\ \E f \in Phases \ {"none", "turning"} : phase' = [phase EXCEPT ![r] = f]
  <2>1. TypeOK'
    BY <1>4, <1>8 DEF TypeOK, place
  <2>2. window' = window
    BY <1>2 DEF buffer
  <2>3. ASSUME NEW q \in Readers
        PROVE  /\ phase'[q] = "turning" <=> phase[q] = "turning"
               /\ phase'[q] = "none" => phase[q] = "none"
               /\ got'[q] = got[q] /\ at'[q] = at[q] /\ cursor'[q] = cursor[q]
    BY <1>8 DEF TypeOK, place
  <2>4. ASSUME NEW q \in Readers PROVE ReaderAt(q)'
    BY <1>1, <2>2, <2>3, PlaceKept DEF ReaderInv
  <2>5. QED BY <2>1, <2>4 DEF ReaderInv
<1>9. CASE Turn(r)
  <2>1. /\ phase[r] = "turning" /\ phase' = [phase EXCEPT ![r] = "idle"]
        /\ at' = [at EXCEPT ![r] = [window |-> window, chunk |-> 0]]
        /\ cursor' = cursor /\ got' = got
    BY <1>9 DEF Turn
  <2>2. /\ phase' \in [Readers -> Phases]
        /\ at' \in [Readers -> [window : Windows, chunk : Chunks]]
        /\ cursor' \in [Readers -> 0 .. MaxEntries]
        /\ got' \in [Readers -> Seq(Entries)]
        /\ phase'[r] = "idle" /\ at'[r] = [window |-> window, chunk |-> 0]
        /\ \A q \in Readers \ {r} :
             /\ phase'[q] = phase[q] /\ at'[q] = at[q] /\ cursor'[q] = cursor[q]
             /\ got'[q] = got[q]
    BY <1>1, <2>1 DEF TypeOK, Phases
  <2>3. PICK v \in Nat : v = at[r].window /\ v + 1 <= window /\ cursor[r] = 0
    BY <1>1, <2>1, HereIs DEF ReaderAt
  <2>4. ASSUME got[r] # <<>>
        PROVE  Precedes(got[r][Len(got[r])], Seen(r)' + 1)
    <3>1. PICK d \in Nat : d = got[r][Len(got[r])]
      BY <2>4, HereIs, Sizes DEF Entries
    <3>2. PICK x \in Nat, y \in Nat :
            /\ x = Base(v + 1, 0) /\ y = Base(window, 0) /\ x <= y
            /\ x = (v + 1) * WindowSize /\ y = window * WindowSize
      <4>1. v + 1 \in Nat
        BY <2>3
      <4>2. Base(v + 1, 0) \in Nat /\ Base(v + 1, 0) = (v + 1) * WindowSize
        BY <4>1, Bases
      <4>3. Base(window, 0) \in Nat /\ Base(window, 0) = window * WindowSize
        BY <1>1, Bases
      <4>4. Base(v + 1, 0) <= Base(window, 0)
        BY <1>1, <2>3, <4>1, BasesGrow
      <4>5. QED BY <4>2, <4>3, <4>4
    <3>3. Seen(r) = x /\ Seen(r)' = y
      <4>1. Seen(r) = x
        BY <2>1, <2>3, <3>2 DEF Seen
      <4>2. Seen(r)' = Base(window, 0) + 0
        BY <2>1, <2>2, <2>3 DEF Seen
      <4>3. QED BY <3>2, <4>1, <4>2
    <3>4. Precedes(d, x + 1)
      BY <1>1, <2>4, <3>1, <3>3 DEF ReaderAt
    <3>5. FirstOfWindow(y + 1)
      BY <1>1, <3>2 DEF FirstOfWindow
    <3>6. v + 1 = window \/ v + 1 \in Windows
      <4>1. x <= MaxEntries
        <5>1. window * WindowSize <= MaxEntries
          BY <1>1 DEF Windows
        <5>2. QED BY <3>2, <5>1, Sizes
      <4>2. v + 1 <= MaxEntries
        <5>1. window <= MaxEntries
          BY <1>1 DEF Windows
        <5>2. QED BY <1>1, <2>3, <5>1, Sizes
      <4>3. QED BY <2>3, <3>2, <4>1, <4>2, Sizes DEF Windows
    <3>7. FirstOfWindow(x + 1)
      BY <1>1, <3>2, <3>6 DEF FirstOfWindow
    <3>8. CASE d = x
      BY <3>1, <3>2, <3>3, <3>5, <3>7, <3>8 DEF Precedes
    <3>9. CASE d # x
      <4>1. x + 1 > d /\ FirstOfWindow(d + 1)
        BY <3>1, <3>2, <3>4, <3>9 DEF Precedes
      <4>2. y + 1 > d
        BY <3>1, <3>2, <4>1
      <4>3. QED BY <3>1, <3>3, <3>5, <4>1, <4>2 DEF Precedes
    <3>10. QED BY <3>8, <3>9
  <2>5. ReaderAt(r)'
    <3>1. cursor'[r] = 0 /\ got'[r] = got[r] /\ ~(cursor'[r] >= ChunkSize)
      BY <2>1, <2>3, Sizes
    <3>2. QED BY <1>1, <2>2, <2>4, <3>1 DEF ReaderAt, Precedes, FirstOfWindow
  <2>6. QED BY <1>3, <1>4, <2>2, <2>5
<1>10. QED
  <2>1. ASSUME ReadSome(r) PROVE phase[r] \in {"idle", "woken"} /\ Available(r) /\ Return(r)
    BY <2>1 DEF ReadSome
  <2>2. ASSUME ReadBlock(r) \/ Sleep(r)
        PROVE  /\ UNCHANGED place /\ phase[r] \notin {"none", "turning"}
               /\ \E f \in Phases \ {"none", "turning"} : phase' = [phase EXCEPT ![r] = f]
    BY <2>2 DEF ReadBlock, Sleep, Phases
  <2>3. ASSUME Wake(r), ~(Available(r) /\ Return(r))
        PROVE  /\ UNCHANGED place /\ phase[r] \notin {"none", "turning"}
               /\ \E f \in Phases \ {"none", "turning"} : phase' = [phase EXCEPT ![r] = f]
    BY <2>3 DEF Wake, Phases
  <2>4. ASSUME Wake(r) PROVE phase[r] \in {"idle", "woken"}
    BY <2>4 DEF Wake
  <2>5. QED BY <1>5, <1>6, <1>7, <1>8, <1>9, <2>1, <2>2, <2>3, <2>4

\* The steps of the writer and of Close leave the readers' places alone.
LEMMA OtherSteps ==
    ASSUME TypeOK, WriterInv, ReaderInv,
           \/ \E n \in 1 .. MaxBatch : WriteBegin(n)
           \/ Write \/ WriteEnd
           \/ \E r \in Readers : Close(r) \/ CloseEnd(r)
           \/ UNCHANGED vars
    PROVE  TypeOK' /\ WriterInv' /\ ReaderInv'
<1>1. UNCHANGED place
  BY DEF WriteBegin, Write, WriteEnd, Close, CloseEnd, vars
<1>2. /\ phase' \in [Readers -> Phases]
      /\ \A q \in Readers :
           /\ phase'[q] = "turning" <=> phase[q] = "turning"
           /\ phase'[q] = "none" => phase[q] = "none"
  <2>1. UNCHANGED phase \/ Broadcast
    BY DEF WriteBegin, Write, WriteEnd, Close, CloseEnd, vars
  <2>2. CASE UNCHANGED phase
    BY <2>2 DEF TypeOK
  <2>3. CASE Broadcast
    BY <2>3 DEF Broadcast, TypeOK, Phases
  <2>4. QED BY <2>1, <2>2, <2>3
<1>3. /\ registered' \in SUBSET Readers /\ writing' \in BOOLEAN
      /\ closed' \in [Readers -> BOOLEAN] /\ closing' \in [Readers -> BOOLEAN]
  BY DEF WriteBegin, Write, WriteEnd, Close, CloseEnd, vars, lock, TypeOK
<1>4. /\ WriterInv'
      /\ window' \in Windows /\ current' \in Chunks
      /\ written' \in 0 .. MaxEntries /\ pending' \in 0 .. MaxBatch
      /\ chunk' \in [Windows -> [Chunks -> Seq(Entries)]]
      /\ \A w \in Windows, c \in Chunks : Len(chunk'[w][c]) <= ChunkSize
      /\ window <= window'
  <2>1. CASE Write
    BY <2>1, WriterAppends
  <2>2. CASE UNCHANGED buffer /\ pending' \in 0 .. MaxBatch /\ written + pending' <= MaxEntries
    <3>1. window \in Nat
      BY Sizes DEF TypeOK
    <3>2. /\ window' \in Windows /\ current' \in Chunks
          /\ written' \in 0 .. MaxEntries /\ pending' \in 0 .. MaxBatch
          /\ chunk' \in [Windows -> [Chunks -> Seq(Entries)]]
          /\ \A w \in Windows, c \in Chunks : Len(chunk'[w][c]) <= ChunkSize
          /\ window <= window'
      BY <2>2, <3>1 DEF TypeOK, buffer
    <3>3. WriterInv'
      BY <2>2 DEF buffer, WriterInv, Holds, Filled, Ahead, size
    <3>4. QED BY <3>2, <3>3
  <2>3. Write \/ (UNCHANGED buffer /\ pending' \in 0 .. MaxBatch /\ written + pending' <= MaxEntries)
    <3>1. CASE \E n \in 1 .. MaxBatch : WriteBegin(n)
      BY <3>1, Sizes DEF WriteBegin
    <3>2. CASE WriteEnd \/ (\E r \in Readers : Close(r) \/ CloseEnd(r)) \/ UNCHANGED vars
      BY <3>2 DEF WriteEnd, Close, CloseEnd, vars, lock, TypeOK, WriterInv
    <3>3. QED BY <3>1, <3>2
  <2>4. QED BY <2>1, <2>2, <2>3
<1>5. TypeOK'
  BY <1>1, <1>2, <1>3, <1>4 DEF TypeOK, place
<1>6. ASSUME NEW q \in Readers PROVE ReaderAt(q)'
  <2>1. got'[q] = got[q] /\ at'[q] = at[q] /\ cursor'[q] = cursor[q]
    BY <1>1 DEF place
  <2>2. ReaderAt(q)
    BY DEF ReaderInv
  <2>3. /\ phase'[q] = "turning" <=> phase[q] = "turning"
        /\ phase'[q] = "none" => phase[q] = "none"
    BY <1>2
  <2>4. QED BY <1>4, <2>1, <2>2, <2>3, PlaceKept
<1>7. QED BY <1>4, <1>5, <1>6 DEF ReaderInv

IInv == TypeOK /\ WriterInv /\ ReaderInv

LEMMA Invariance == Spec => []IInv
<1>1. Init => IInv
  <2>1. ASSUME Init PROVE ReaderInv
    <3>1. ASSUME NEW r \in Readers PROVE ReaderAt(r)
      <4>1. phase[r] = "none" /\ got[r] = <<>> /\ cursor[r] = 0
        BY <2>1 DEF Init
      <4>2. ~(cursor[r] >= ChunkSize)
        BY <4>1, Sizes
      <4>3. QED BY <4>1, <4>2 DEF ReaderAt
    <3>2. QED BY <3>1 DEF ReaderInv
  <2>2. QED BY <2>1, WriterInitially DEF IInv
<1>2. IInv /\ [Next]_vars => IInv'
  <2> SUFFICES ASSUME IInv, [Next]_vars PROVE IInv'
    OBVIOUS
  <2>1. ASSUME NEW r \in Readers,
               \/ \E m \in History : Reader(r, m)
               \/ ReadSome(r) \/ ReadNone(r) \/ ReadBlock(r)
               \/ Sleep(r) \/ Wake(r) \/ Turn(r)
        PROVE  IInv'
    <3>1. TypeOK' /\ ReaderInv'
      BY <2>1, ReaderSteps DEF IInv
    <3>2. UNCHANGED buffer /\ UNCHANGED lock
      BY <2>1 DEF Reader, ReadSome, ReadNone, ReadBlock, Sleep, Wake, Turn
    <3>3. WriterInv'
      BY <3>2 DEF IInv, buffer, lock, WriterInv, Holds, Filled, Ahead, size
    <3>4. QED BY <3>1, <3>3 DEF IInv
  <2>2. CASE \/ \E n \in 1 .. MaxBatch : WriteBegin(n)
             \/ Write \/ WriteEnd
             \/ \E r \in Readers : Close(r) \/ CloseEnd(r)
             \/ UNCHANGED vars
    BY <2>2, OtherSteps DEF IInv
  <2>3. QED BY <2>1, <2>2 DEF Next
<1>3. QED BY <1>1, <1>2, PTL DEF Spec

\* The buffer and the readers keep their types: no chunk grows beyond its
\* size, and the writer never leaves the window it may write.
THEOREM TypeCorrect == Spec => []TypeOK
<1>1. IInv => TypeOK
  BY DEF IInv
<1>2. QED BY <1>1, Invariance, PTL

\* Reader.Read: every reader gets the entries in order, once, and leaves out
\* only whole windows, although it reads without the lock.
THEOREM ReadsInOrder == Spec => []InOrder
<1>1. IInv => InOrder
  <2> SUFFICES ASSUME IInv, NEW r \in Readers, NEW i \in 1 .. Len(got[r]) - 1
               PROVE  \/ got[r][i + 1] = got[r][i] + 1
                      \/ /\ got[r][i + 1] > got[r][i]
                         /\ FirstOfWindow(got[r][i] + 1)
                         /\ FirstOfWindow(got[r][i + 1])
    BY DEF InOrder
  <2>1. Precedes(got[r][i], got[r][i + 1])
    BY DEF IInv, ReaderInv, ReaderAt
  <2>2. QED BY <2>1 DEF Precedes
<1>2. QED BY <1>1, Invariance, PTL

===============================================================================
