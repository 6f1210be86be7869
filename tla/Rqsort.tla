-------------------------------- MODULE Rqsort --------------------------------
(***************************************************************************)
(* rqsort (cutils.c:522-639), which sorts the intervals of a canonicalized *)
(* set by where they start: quicksort that partitions in three, with its   *)
(* own stack, insertion sort for small segments, and heapsort when it has  *)
(* partitioned too often.  Positions count elements from 0; i, lt and gt   *)
(* of the source are pi, plt and pgt counted from ptr, so they are left    *)
(* out.                                                                    *)
(***************************************************************************)
EXTENDS Integers, Sequences, FiniteSets

CONSTANTS SmallSize,   \* segments of this size are sorted by insertion: 6
          MaxDepth,    \* partitions before heapsort takes over, and room on the stack: 50
          Arrays       \* what may have to be sorted, as sequences of intervals

ASSUME SortAssumption ==
  /\ SmallSize \in Nat /\ SmallSize >= 3 /\ MaxDepth \in Nat \ {0}
  /\ Arrays \subseteq Seq(Nat \X Nat)

VARIABLES
  arr,           \* the elements; that at position p is arr[p + 1]
  unsorted,      \* history: the elements as they were given
  stack,         \* segments that are still to be sorted
  ptr, nmemb,    \* the segment at hand: its base and its size
  depth,         \* how often it has been partitioned
  plt, pi,       \* equal elements end at plt, smaller ones at pi
  pj, pgt,       \* greater elements start at pj, equal ones at pgt
  r,             \* heapsort: the element that moves down
  spc            \* where rqsort is

sortVars == <<arr, unsorted, stack, ptr, nmemb, depth, plt, pi, pj, pgt, r, spc>>

\* point_cmp: the sign of the order of two elements, which compares the starts only.
At(p) == arr[p + 1][1]

Swapped(s, p, q) == [s EXCEPT ![p + 1] = s[q + 1], ![q + 1] = s[p + 1]]

\* The blocks of n elements at p and at q change places.
BlocksSwapped(s, p, q, n) ==
  [m \in DOMAIN s |-> IF m - 1 \in p..(p + n - 1) THEN s[m - p + q]
                      ELSE IF m - 1 \in q..(q + n - 1) THEN s[m - q + p] ELSE s[m]]

Segment(base, count, d) == [base |-> base, count |-> count, depth |-> d]

SortIdle ==
  /\ arr = <<>> /\ unsorted = <<>> /\ stack = <<>>
  /\ ptr = 0 /\ nmemb = 0 /\ depth = 0
  /\ plt = 0 /\ pi = 0 /\ pj = 0 /\ pgt = 0 /\ r = 0
  /\ spc = "idle"

\* rqsort is called.
SortCall(s) ==
  /\ arr' = s /\ unsorted' = s
  /\ IF Len(s) < 2
       THEN stack' = <<>> /\ spc' = "sorted"
       ELSE stack' = <<Segment(0, Len(s), 0)>> /\ spc' = "pop"
  /\ UNCHANGED <<ptr, nmemb, depth, plt, pi, pj, pgt, r>>

\* It has been called.
SortInit ==
  \E s \in Arrays :
    /\ arr = s /\ unsorted = s
    /\ IF Len(s) < 2
         THEN stack = <<>> /\ spc = "sorted"
         ELSE stack = <<Segment(0, Len(s), 0)>> /\ spc = "pop"
    /\ ptr = 0 /\ nmemb = 0 /\ depth = 0
    /\ plt = 0 /\ pi = 0 /\ pj = 0 /\ pgt = 0 /\ r = 0

Pop ==
  LET top == stack[Len(stack)]
  IN  /\ spc = "pop"
      /\ IF stack = <<>>
           THEN spc' = "sorted" /\ UNCHANGED <<stack, ptr, nmemb, depth>>
           ELSE /\ stack' = SubSeq(stack, 1, Len(stack) - 1)
                /\ ptr' = top.base /\ nmemb' = top.count /\ depth' = top.depth
                /\ spc' = "loop"
      /\ UNCHANGED <<arr, unsorted, plt, pi, pj, pgt, r>>

\* med3: the median of three positions.
Med3(a, b, c) ==
  IF At(a) < At(b)
    THEN IF At(b) < At(c) THEN b ELSE IF At(a) < At(c) THEN c ELSE a
    ELSE IF At(b) > At(c) THEN b ELSE IF At(a) < At(c) THEN a ELSE c

\* The pivot goes to the start of the segment.
Partition ==
  LET m4 == nmemb \div 4
  IN  /\ spc = "loop" /\ nmemb > SmallSize /\ depth < MaxDepth
      /\ depth' = depth + 1
      /\ arr' = Swapped(arr, ptr, Med3(ptr + m4, ptr + 2 * m4, ptr + 3 * m4))
      /\ plt' = ptr + 1 /\ pi' = ptr + 1
      /\ pj' = ptr + nmemb /\ pgt' = ptr + nmemb
      /\ spc' = "up"
      /\ UNCHANGED <<unsorted, stack, ptr, nmemb, r>>

\* pi moves up to an element that is greater than the pivot.
Up ==
  /\ spc = "up"
  /\ IF pi < pj /\ At(ptr) >= At(pi)
       THEN /\ IF At(ptr) = At(pi)
                 THEN arr' = Swapped(arr, plt, pi) /\ plt' = plt + 1
                 ELSE UNCHANGED <<arr, plt>>
            /\ pi' = pi + 1 /\ UNCHANGED spc
       ELSE spc' = "down" /\ UNCHANGED <<arr, plt, pi>>
  /\ UNCHANGED <<unsorted, stack, ptr, nmemb, depth, pj, pgt, r>>

\* pj moves down to one that is smaller.
Down ==
  LET q == pj - 1
  IN  /\ spc = "down"
      /\ pj' = q
      /\ \/ /\ pi < q /\ At(ptr) <= At(q)
            /\ IF At(ptr) = At(q)
                 THEN pgt' = pgt - 1 /\ arr' = Swapped(arr, pgt - 1, q)
                 ELSE UNCHANGED <<arr, pgt>>
            /\ UNCHANGED <<pi, spc>>
         \/ /\ pi < q /\ At(ptr) > At(q)
            /\ arr' = Swapped(arr, pi, q)
            /\ pi' = pi + 1
            /\ spc' = "up" /\ UNCHANGED pgt
         \/ /\ pi >= q
            /\ spc' = "gather" /\ UNCHANGED <<arr, pi, pgt>>
      /\ UNCHANGED <<unsorted, stack, ptr, nmemb, depth, plt, r>>

Least(m, n) == IF m < n THEN m ELSE n

\* The elements equal to the pivot, at both ends, are brought to the middle.
Gathered(top) ==
  LET low == Least(plt - ptr, pi - plt)
      high == Least(top - pgt, pgt - pi)
  IN  BlocksSwapped(BlocksSwapped(arr, ptr, pi - low, low), pi, top - high, high)

\* The larger segment is stacked, and the smaller one is next.
StackLarger_NoDepth(low, high) ==
  IF low.count > high.count
    THEN stack' = Append(stack, [low EXCEPT !.depth = 0]) /\ ptr' = high.base /\ nmemb' = high.count
    ELSE stack' = Append(stack, [high EXCEPT !.depth = 0]) /\ ptr' = low.base /\ nmemb' = low.count

StackLarger(low, high) ==
  IF low.count > high.count
    THEN stack' = Append(stack, low) /\ ptr' = high.base /\ nmemb' = high.count
    ELSE stack' = Append(stack, high) /\ ptr' = low.base /\ nmemb' = low.count

Gather ==
  LET top == ptr + nmemb
  IN  /\ spc = "gather"
      /\ arr' = Gathered(top)
      /\ StackLarger(Segment(ptr, pi - plt, depth), Segment(top - (pgt - pi), pgt - pi, depth))
      /\ spc' = "loop"
      /\ UNCHANGED <<unsorted, depth, plt, pi, pj, pgt, r>>

--------------------------------------------------------------------------------
(***************************************************************************)
(* Insertion: the element at pi is brought down, by pj.                    *)
(***************************************************************************)
Insertion ==
  /\ spc = "loop" /\ nmemb <= SmallSize
  /\ pi' = ptr + 1 /\ pj' = ptr + 1
  /\ spc' = "insert"
  /\ UNCHANGED <<arr, unsorted, stack, ptr, nmemb, depth, plt, pgt, r>>

Insert ==
  /\ spc = "insert"
  /\ \/ /\ pi < ptr + nmemb
        /\ IF pj > ptr /\ At(pj - 1) > At(pj)
             THEN arr' = Swapped(arr, pj, pj - 1) /\ pj' = pj - 1 /\ UNCHANGED pi
             ELSE pi' = pi + 1 /\ pj' = pi + 1 /\ UNCHANGED arr
        /\ UNCHANGED spc
     \/ /\ pi >= ptr + nmemb
        /\ spc' = "pop"
        /\ UNCHANGED <<arr, pi, pj>>
  /\ UNCHANGED <<unsorted, stack, ptr, nmemb, depth, plt, pgt, r>>

--------------------------------------------------------------------------------
(***************************************************************************)
(* heapsortx: pi is i, pj the end of the heap.  First the heap is built,   *)
(* then its top goes to the end, again and again.                          *)
(***************************************************************************)
Heapsort ==
  /\ spc = "loop" /\ nmemb > SmallSize /\ depth >= MaxDepth
  /\ depth' = depth + 1
  /\ pi' = nmemb \div 2 /\ pj' = nmemb
  /\ spc' = "heapify"
  /\ UNCHANGED <<arr, unsorted, stack, ptr, nmemb, plt, pgt, r>>

\* Moves the element at r down by one; returns to pc once it is in its place.
SiftStep(pc) ==
  LET left == 2 * r + 1
      c == IF left < pj - 1 /\ At(ptr + left) <= At(ptr + left + 1) THEN left + 1 ELSE left
  IN  /\ IF left < pj /\ At(ptr + r) <= At(ptr + c)
           THEN arr' = Swapped(arr, ptr + r, ptr + c) /\ r' = c /\ UNCHANGED spc
           ELSE spc' = pc /\ UNCHANGED <<arr, r>>
      /\ UNCHANGED <<unsorted, stack, ptr, nmemb, depth, plt, pi, pj, pgt>>

Heapify ==
  /\ spc = "heapify"
  /\ \/ /\ pi > 0
        /\ pi' = pi - 1 /\ r' = pi - 1
        /\ spc' = "sift"
        /\ UNCHANGED <<arr, pj>>
     \/ /\ pi = 0
        /\ pi' = nmemb - 1
        /\ spc' = "extract"
        /\ UNCHANGED <<arr, pj, r>>
  /\ UNCHANGED <<unsorted, stack, ptr, nmemb, depth, plt, pgt>>

Extract ==
  /\ spc = "extract"
  /\ \/ /\ pi > 0
        /\ arr' = Swapped(arr, ptr, ptr + pi)
        /\ pj' = pi /\ pi' = pi - 1 /\ r' = 0
        /\ spc' = "sink" /\ UNCHANGED nmemb
     \/ /\ pi = 0
        /\ nmemb' = 0
        /\ spc' = "loop"
        /\ UNCHANGED <<arr, pj, pi, r>>
  /\ UNCHANGED <<unsorted, stack, ptr, depth, plt, pgt>>

Sift == spc = "sift" /\ SiftStep("heapify")
Sink == spc = "sink" /\ SiftStep("extract")

SortStep ==
  \/ Pop \/ Partition \/ Up \/ Down \/ Gather
  \/ Insertion \/ Insert
  \/ Heapsort \/ Heapify \/ Extract \/ Sift \/ Sink

SortSpec == SortInit /\ [][SortStep]_sortVars

--------------------------------------------------------------------------------
\* At the end the elements are sorted by their start, and each is there as often
\* as it was given.  The stack has room for the segments whatever the order of
\* the elements, as the limit of the depth is meant to ensure.  (rqsort, heapsortx)
Count(s, e) == Cardinality({n \in DOMAIN s : s[n] = e})

SortCorrect ==
  /\ Len(stack) <= MaxDepth
  /\ spc = "sorted" =>
       /\ \A n \in 2..Len(arr) : arr[n - 1][1] <= arr[n][1]
       /\ \A n \in DOMAIN unsorted : Count(arr, unsorted[n]) = Count(unsorted, unsorted[n])
================================================================================
