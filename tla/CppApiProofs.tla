----------------------------- MODULE CppApiProofs -----------------------------
(***************************************************************************)
(* Every output is released exactly once, for any number of Result         *)
(* objects, raw results and buffers, when the call_result of the host has  *)
(* no release function of its own.  VM handles own their instances, for    *)
(* any number of handles and of instances, and the guarantees about        *)
(* results carry over to a client that uses both.                          *)
(***************************************************************************)
EXTENDS CppApi, TLAPS

(* A holder with the right to release is alive, usable and refers to an    *)
(* allocated buffer; a usable holder of a buffer has the right to release  *)
(* it; two holders never have it for the same buffer.                      *)
HolderInv ==
    /\ \A h \in Holder : cell[h].release =>
          cell[h].alive /\ ~cell[h].spent /\ cell[h].data \in allocated
    /\ \A h \in Holder : cell[h].alive /\ ~cell[h].spent /\ cell[h].data \in Buffer =>
          cell[h].release
    /\ \A g, h \in Holder : cell[g].release /\ cell[h].release /\ cell[g].data = cell[h].data
          => g = h

(* An allocated buffer has a holder and was never released; a buffer       *)
(* malloc() has not returned yet is unknown to everyone.                   *)
BufferInv ==
    /\ \A b \in allocated :
          /\ releases[b] = 0
          /\ \E h \in Holder : cell[h].release /\ cell[h].data = b
    /\ \A b \in fresh :
          /\ b \notin allocated /\ releases[b] = 0
          /\ \A h \in Holder : cell[h].data # b
    /\ \A b \in Buffer : releases[b] <= 1

(* The result kept in the host has nothing to release.                     *)
HostInv == ~call_result.release /\ call_result.data \notin Buffer /\ ~call_result.spent

OwnInv == TypeOK /\ HolderInv /\ BufferInv /\ HostInv

------------------------------------------------------------------------------
(* The cells the operations write.                                         *)
LEMMA CellFacts ==
    /\ Dead \in Cell /\ ~Dead.alive /\ ~Dead.release /\ Dead.data = NULL
    /\ \A d \in Data, r \in BOOLEAN :
          /\ Filled(d, r) \in Cell
          /\ Filled(d, r).alive /\ ~Filled(d, r).spent
          /\ Filled(d, r).data = d /\ Filled(d, r).release = r
    /\ \A c \in Cell :
          /\ Disowned(c) \in Cell
          /\ Disowned(c).alive = c.alive /\ Disowned(c).data = c.data
          /\ ~Disowned(c).release /\ Disowned(c).spent
BY DEF Dead, Cell, Data, Filled, Disowned

(* Initially nobody holds anything.                                        *)
LEMMA OwnInit == ~HostResultOwned /\ Init => OwnInv
<1> SUFFICES ASSUME ~HostResultOwned, Init PROVE OwnInv
  OBVIOUS
<1>1. PICK d \in {NULL, Static} : call_result = Filled(d, FALSE)
  BY DEF Init
<1>2. /\ cell = [h \in Holder |-> Dead]
      /\ releases = [b \in Buffer |-> 0]
      /\ allocated = {} /\ fresh = Buffer
  BY DEF Init
<1>3. d \in Data /\ d \notin Buffer
  BY <1>1, OwnershipAssumption DEF Data
<1>4. TypeOK
  BY <1>1, <1>2, <1>3, CellFacts DEF TypeOK
<1>5. HostInv
  BY <1>1, <1>3, CellFacts DEF HostInv
<1>6. \A h \in Holder : /\ ~cell[h].alive /\ ~cell[h].release /\ cell[h].data = NULL
  BY <1>2, CellFacts
<1>7. HolderInv
  BY <1>6 DEF HolderInv
<1>8. BufferInv
  BY <1>2, <1>6, OwnershipAssumption DEF BufferInv
<1> QED
  BY <1>4, <1>5, <1>7, <1>8 DEF OwnInv

------------------------------------------------------------------------------
(* Handing a result over from y to x: x had nothing to release, and what   *)
(* is left in y (c) has no right to release and is not used again.         *)
LEMMA HandOver ==
    ASSUME OwnInv, NEW x \in Holder, NEW y \in Holder, x # y, ~cell[x].release,
           NEW c \in Cell, ~c.release, c.alive => c.spent, c.data \in {cell[y].data, NULL},
           cell' = [cell EXCEPT ![x] = cell[y], ![y] = c],
           UNCHANGED <<allocated, fresh, releases, call_result>>
    PROVE  OwnInv'
<1>1. /\ cell'[x] = cell[y] /\ cell'[y] = c
      /\ \A h \in Holder : h # x /\ h # y => cell'[h] = cell[h]
  BY DEF OwnInv, TypeOK
<1>2. TypeOK'
  BY DEF OwnInv, TypeOK
<1>3. HolderInv'
  <2>1. ASSUME NEW h \in Holder
        PROVE  /\ cell'[h].release =>
                    cell'[h].alive /\ ~cell'[h].spent /\ cell'[h].data \in allocated'
               /\ cell'[h].alive /\ ~cell'[h].spent /\ cell'[h].data \in Buffer =>
                    cell'[h].release
    <3>1. CASE h = x
      BY <1>1, <3>1 DEF OwnInv, HolderInv
    <3>2. CASE h = y
      BY <1>1, <3>2
    <3>3. CASE h # x /\ h # y
      <4>1. cell'[h] = cell[h] /\ allocated' = allocated
        BY <1>1, <2>1, <3>3
      <4> QED
        BY <2>1, <4>1 DEF OwnInv, HolderInv
    <3> QED
      BY <3>1, <3>2, <3>3
  <2>2. ASSUME NEW g \in Holder, NEW h \in Holder,
               cell'[g].release, cell'[h].release, cell'[g].data = cell'[h].data
        PROVE  g = h
    <3>1. g # y /\ h # y
      BY <1>1, <2>2
    <3>2. CASE g = x /\ h # x
      BY <1>1, <2>2, <3>1, <3>2 DEF OwnInv, HolderInv
    <3>3. CASE g # x /\ h = x
      BY <1>1, <2>2, <3>1, <3>3 DEF OwnInv, HolderInv
    <3>4. CASE g # x /\ h # x
      BY <1>1, <2>2, <3>1, <3>4 DEF OwnInv, HolderInv
    <3> QED
      BY <3>2, <3>3, <3>4
  <2> QED
    BY <2>1, <2>2 DEF HolderInv
<1>4. BufferInv'
  <2>1. ASSUME NEW b \in allocated
        PROVE  \E h \in Holder : cell'[h].release /\ cell'[h].data = b
    <3>1. PICK h \in Holder : cell[h].release /\ cell[h].data = b
      BY <2>1 DEF OwnInv, BufferInv
    <3>2. CASE h = y
      BY <1>1, <3>1, <3>2
    <3>3. CASE h # y
      BY <1>1, <3>1, <3>3
    <3> QED
      BY <3>2, <3>3
  <2>2. ASSUME NEW b \in fresh, NEW h \in Holder
        PROVE  cell'[h].data # b
    BY <1>1, <2>2, OwnershipAssumption DEF OwnInv, BufferInv, TypeOK
  <2> QED
    BY <2>1, <2>2 DEF OwnInv, BufferInv
<1>5. HostInv'
  BY DEF OwnInv, HostInv
<1> QED
  BY <1>2, <1>3, <1>4, <1>5 DEF OwnInv

(* The result in x is released and x does not exist any more.              *)
LEMMA ReleaseAndForget ==
    ASSUME OwnInv, NEW x \in Holder, cell[x].alive, Release(cell[x]),
           cell' = [cell EXCEPT ![x] = Dead], UNCHANGED <<fresh, call_result>>
    PROVE  OwnInv'
<1>1. /\ cell'[x] = Dead
      /\ \A h \in Holder : h # x => cell'[h] = cell[h]
      /\ cell \in [Holder -> Cell] /\ cell' \in [Holder -> Cell]
  BY CellFacts DEF OwnInv, TypeOK
<1>2. HostInv'
  BY DEF OwnInv, HostInv
<1>3. CASE ~cell[x].release
  <2>1. UNCHANGED <<allocated, releases>>
    BY <1>3 DEF Release
  <2>2. TypeOK'
    BY <1>1, <2>1 DEF OwnInv, TypeOK
  <2>3. HolderInv'
    BY <1>1, <2>1, CellFacts DEF OwnInv, HolderInv
  <2>4. \A b \in allocated : \E h \in Holder : cell'[h].release /\ cell'[h].data = b
    BY <1>1, <1>3 DEF OwnInv, BufferInv
  <2>5. \A b \in fresh : \A h \in Holder : cell'[h].data # b
    BY <1>1, CellFacts, OwnershipAssumption DEF OwnInv, BufferInv, TypeOK
  <2>6. BufferInv'
    BY <2>1, <2>4, <2>5 DEF OwnInv, BufferInv
  <2> QED
    BY <1>2, <2>2, <2>3, <2>6 DEF OwnInv
<1>4. CASE cell[x].release
  <2> DEFINE d == cell[x].data
  <2>1. /\ allocated' = allocated \ {d}
        /\ releases' = [releases EXCEPT ![d] = releases[d] + 1]
        /\ d \in allocated /\ d \in Buffer
        /\ releases[d] = 0
    BY <1>4 DEF Release, OwnInv, HolderInv, BufferInv, TypeOK
  <2>2. /\ releases'[d] = 1
        /\ \A b \in Buffer : b # d => releases'[b] = releases[b]
        /\ releases' \in [Buffer -> Nat]
    BY <2>1 DEF OwnInv, TypeOK
  <2>3. TypeOK'
    BY <1>1, <2>1, <2>2 DEF OwnInv, TypeOK
  <2>4. HolderInv'
    <3>1. ASSUME NEW h \in Holder, cell'[h].release
          PROVE  cell'[h].alive /\ ~cell'[h].spent /\ cell'[h].data \in allocated'
      BY <1>1, <1>4, <2>1, <3>1, CellFacts DEF OwnInv, HolderInv
    <3> QED
      BY <1>1, <3>1, CellFacts DEF OwnInv, HolderInv
  <2>5. BufferInv'
    <3>1. ASSUME NEW b \in allocated'
          PROVE  /\ releases'[b] = 0
                 /\ \E h \in Holder : cell'[h].release /\ cell'[h].data = b
      <4>1. b \in allocated /\ b # d /\ b \in Buffer
        BY <2>1, <3>1 DEF OwnInv, TypeOK
      <4>2. PICK h \in Holder : cell[h].release /\ cell[h].data = b
        BY <4>1 DEF OwnInv, BufferInv
      <4> QED
        BY <1>1, <2>2, <4>1, <4>2 DEF OwnInv, BufferInv
    <3>2. ASSUME NEW b \in fresh'
          PROVE  /\ b \notin allocated' /\ releases'[b] = 0
                 /\ \A h \in Holder : cell'[h].data # b
      <4>1. b \in fresh /\ b \in Buffer /\ b # d /\ b # NULL
        BY <2>1, <3>2, OwnershipAssumption DEF OwnInv, BufferInv, TypeOK
      <4> QED
        BY <1>1, <2>1, <2>2, <4>1, CellFacts DEF OwnInv, BufferInv
    <3>3. \A b \in Buffer : releases'[b] <= 1
      BY <2>2 DEF OwnInv, BufferInv
    <3> QED
      BY <3>1, <3>2, <3>3 DEF BufferInv
  <2> QED
    BY <1>2, <2>3, <2>4, <2>5 DEF OwnInv
<1> QED
  BY <1>3, <1>4

(* An assignment releases the result in x before y is handed over to it.   *)
LEMMA AssignStep ==
    ASSUME OwnInv, NEW x \in Obj, NEW y \in Obj, MoveAssign(x, y)
    PROVE  OwnInv'
<1>0. /\ x \in Holder /\ y \in Holder /\ x # y
      /\ cell \in [Holder -> Cell]
      /\ cell[x].alive /\ cell[y].alive
      /\ Disowned(cell[y]) \in Cell
  BY CellFacts DEF OwnInv, TypeOK, Holder, MoveAssign
<1>1. /\ cell'[x] = cell[y] /\ cell'[y] = Disowned(cell[y])
      /\ \A h \in Holder : h # x /\ h # y => cell'[h] = cell[h]
      /\ cell' \in [Holder -> Cell]
      /\ ~cell'[y].release /\ cell'[y].spent /\ cell'[y].data = cell[y].data
  BY <1>0, CellFacts DEF MoveAssign
<1>2. CASE ~cell[x].release
  <2>1. UNCHANGED <<allocated, fresh, releases, call_result>>
    BY <1>2 DEF MoveAssign, Release
  <2> QED
    BY <1>0, <1>2, <2>1, HandOver, CellFacts DEF MoveAssign
<1>3. CASE cell[x].release
  <2> DEFINE d == cell[x].data
  <2>1. /\ allocated' = allocated \ {d}
        /\ releases' = [releases EXCEPT ![d] = releases[d] + 1]
        /\ d \in allocated /\ d \in Buffer
        /\ releases[d] = 0
        /\ fresh' = fresh /\ call_result' = call_result
    BY <1>0, <1>3 DEF MoveAssign, Release, OwnInv, HolderInv, BufferInv, TypeOK
  <2>2. /\ releases'[d] = 1
        /\ \A b \in Buffer : b # d => releases'[b] = releases[b]
        /\ releases' \in [Buffer -> Nat]
    BY <2>1 DEF OwnInv, TypeOK
  <2>3. TypeOK'
    BY <1>1, <2>1, <2>2 DEF OwnInv, TypeOK
  <2>4. \A h \in Holder : h # x /\ cell[h].release => cell[h].data # d
    BY <1>0, <1>3 DEF OwnInv, HolderInv
  <2>5. HolderInv'
    <3>1. ASSUME NEW h \in Holder
          PROVE  /\ cell'[h].release =>
                      cell'[h].alive /\ ~cell'[h].spent /\ cell'[h].data \in allocated'
                 /\ cell'[h].alive /\ ~cell'[h].spent /\ cell'[h].data \in Buffer =>
                      cell'[h].release
      <4>1. CASE h = x
        BY <1>0, <1>1, <2>1, <2>4, <4>1 DEF OwnInv, HolderInv
      <4>2. CASE h = y
        BY <1>1, <4>2
      <4>3. CASE h # x /\ h # y
        BY <1>1, <2>1, <2>4, <3>1, <4>3 DEF OwnInv, HolderInv
      <4> QED
        BY <4>1, <4>2, <4>3
    <3>2. ASSUME NEW g \in Holder, NEW h \in Holder,
                 cell'[g].release, cell'[h].release, cell'[g].data = cell'[h].data
          PROVE  g = h
      <4>1. g # y /\ h # y
        BY <1>1, <3>2
      <4>2. CASE g = x /\ h # x
        BY <1>0, <1>1, <3>2, <4>1, <4>2 DEF OwnInv, HolderInv
      <4>3. CASE g # x /\ h = x
        BY <1>0, <1>1, <3>2, <4>1, <4>3 DEF OwnInv, HolderInv
      <4>4. CASE g # x /\ h # x
        BY <1>1, <3>2, <4>1, <4>4 DEF OwnInv, HolderInv
      <4> QED
        BY <4>2, <4>3, <4>4
    <3> QED
      BY <3>1, <3>2 DEF HolderInv
  <2>6. BufferInv'
    <3>1. ASSUME NEW b \in allocated'
          PROVE  /\ releases'[b] = 0
                 /\ \E h \in Holder : cell'[h].release /\ cell'[h].data = b
      <4>1. b \in allocated /\ b # d /\ b \in Buffer
        BY <2>1, <3>1 DEF OwnInv, TypeOK
      <4>2. PICK h \in Holder : cell[h].release /\ cell[h].data = b
        BY <4>1 DEF OwnInv, BufferInv
      <4>3. h # x
        BY <4>1, <4>2
      <4>4. \E g \in Holder : cell'[g].release /\ cell'[g].data = b
        <5>1. CASE h = y
          BY <1>0, <1>1, <4>2, <5>1
        <5>2. CASE h # y
          BY <1>1, <4>2, <4>3, <5>2
        <5> QED
          BY <5>1, <5>2
      <4> QED
        BY <2>2, <4>1, <4>4 DEF OwnInv, BufferInv
    <3>2. ASSUME NEW b \in fresh'
          PROVE  /\ b \notin allocated' /\ releases'[b] = 0
                 /\ \A h \in Holder : cell'[h].data # b
      <4>1. b \in fresh /\ b \in Buffer /\ b # d
        BY <2>1, <3>2 DEF OwnInv, BufferInv, TypeOK
      <4>2. \A h \in Holder : cell[h].data # b
        BY <4>1 DEF OwnInv, BufferInv
      <4>3. \A h \in Holder : cell'[h].data # b
        BY <1>0, <1>1, <4>2
      <4> QED
        BY <2>1, <2>2, <4>1, <4>3 DEF OwnInv, BufferInv
    <3>3. \A b \in Buffer : releases'[b] <= 1
      BY <2>2 DEF OwnInv, BufferInv
    <3> QED
      BY <3>1, <3>2, <3>3 DEF BufferInv
  <2>7. HostInv'
    BY <2>1 DEF OwnInv, HostInv
  <2> QED
    BY <2>3, <2>5, <2>6, <2>7 DEF OwnInv
<1> QED
  BY <1>2, <1>3

(* A new result in x that owns nothing.                                    *)
LEMMA NewUnowned ==
    ASSUME OwnInv, NEW x \in Holder, ~cell[x].alive,
           NEW c \in Cell, ~c.release, c.data \notin Buffer,
           cell' = [cell EXCEPT ![x] = c],
           UNCHANGED <<allocated, fresh, releases, call_result>>
    PROVE  OwnInv'
<1>1. /\ cell'[x] = c
      /\ \A h \in Holder : h # x => cell'[h] = cell[h]
      /\ ~cell[x].release
  BY DEF OwnInv, TypeOK, HolderInv
<1>2. TypeOK'
  BY DEF OwnInv, TypeOK
<1>3. HolderInv'
  BY <1>1 DEF OwnInv, HolderInv
<1>4. \A b \in allocated : \E h \in Holder : cell'[h].release /\ cell'[h].data = b
  BY <1>1 DEF OwnInv, BufferInv
<1>5. \A b \in fresh : \A h \in Holder : cell'[h].data # b
  BY <1>1 DEF OwnInv, BufferInv, TypeOK
<1>6. BufferInv'
  BY <1>4, <1>5 DEF OwnInv, BufferInv
<1> QED
  BY <1>2, <1>3, <1>6 DEF OwnInv, HostInv

(* A new result in x that owns a buffer malloc() has just returned.        *)
LEMMA NewOwned ==
    ASSUME OwnInv, NEW x \in Holder, ~cell[x].alive, NEW b \in fresh,
           cell' = [cell EXCEPT ![x] = Filled(b, TRUE)],
           allocated' = allocated \cup {b}, fresh' = fresh \ {b},
           UNCHANGED <<releases, call_result>>
    PROVE  OwnInv'
<1>0. b \in Buffer /\ b \in Data
  BY DEF OwnInv, TypeOK, Data
<1>1. /\ cell'[x] = Filled(b, TRUE)
      /\ \A h \in Holder : h # x => cell'[h] = cell[h]
      /\ cell' \in [Holder -> Cell]
      /\ ~cell[x].release
      /\ cell'[x].alive /\ cell'[x].release /\ cell'[x].data = b /\ ~cell'[x].spent
  BY <1>0, CellFacts DEF OwnInv, TypeOK, HolderInv
<1>2. TypeOK'
  BY <1>0, <1>1 DEF OwnInv, TypeOK
<1>3. \A h \in Holder : cell[h].data # b
  BY DEF OwnInv, BufferInv
<1>4. HolderInv'
  BY <1>1, <1>3 DEF OwnInv, HolderInv
<1>5. BufferInv'
  <2>1. ASSUME NEW a \in allocated'
        PROVE  releases'[a] = 0 /\ \E h \in Holder : cell'[h].release /\ cell'[h].data = a
    <3>1. CASE a = b
      BY <1>1, <3>1 DEF OwnInv, BufferInv
    <3>2. CASE a # b
      <4>1. PICK h \in Holder : cell[h].release /\ cell[h].data = a
        BY <2>1, <3>2 DEF OwnInv, BufferInv
      <4> QED
        BY <1>1, <2>1, <3>2, <4>1 DEF OwnInv, BufferInv
    <3> QED
      BY <3>1, <3>2
  <2>2. ASSUME NEW a \in fresh'
        PROVE  /\ a \notin allocated' /\ releases'[a] = 0
               /\ \A h \in Holder : cell'[h].data # a
    <3>1. a \in fresh /\ a # b
      BY <2>2
    <3>2. a \notin allocated' /\ releases'[a] = 0
      BY <3>1 DEF OwnInv, BufferInv
    <3>3. ASSUME NEW h \in Holder PROVE cell'[h].data # a
      <4>1. cell[h].data # a
        BY <3>1, <3>3 DEF OwnInv, BufferInv
      <4>2. CASE h = x
        BY <1>1, <3>1, <4>2
      <4>3. CASE h # x
        BY <1>1, <3>3, <4>1, <4>3
      <4> QED
        BY <4>2, <4>3
    <3> QED
      BY <3>2, <3>3
  <2> QED
    BY <2>1, <2>2 DEF OwnInv, BufferInv
<1> QED
  BY <1>2, <1>4, <1>5 DEF OwnInv, HostInv

(* Every operation of a client that keeps to the documented rules keeps    *)
(* the ownership unique.                                                   *)
LEMMA OwnStep == OwnInv /\ [Next]_vars => OwnInv'
<1> SUFFICES ASSUME OwnInv, [Next]_vars PROVE OwnInv'
  OBVIOUS
<1>0. /\ cell \in [Holder -> Cell] /\ call_result \in Cell
      /\ Obj \subseteq Holder /\ Raw \subseteq Holder
      /\ \A h \in Holder : ~cell[h].alive => ~cell[h].release
  BY DEF OwnInv, TypeOK, Holder, HolderInv
<1>1. ASSUME NEW h \in Holder, make_result(h) PROVE OwnInv'
  <2>1. CASE \E b \in fresh : /\ cell' = [cell EXCEPT ![h] = Filled(b, TRUE)]
                              /\ allocated' = allocated \cup {b}
                              /\ fresh' = fresh \ {b}
    BY <1>1, <2>1, NewOwned DEF make_result
  <2>2. CASE cell' = [cell EXCEPT ![h] = Filled(NULL, FALSE)]
             /\ UNCHANGED <<allocated, fresh>>
    <3>1. Filled(NULL, FALSE) \in Cell /\ ~Filled(NULL, FALSE).release
          /\ Filled(NULL, FALSE).data \notin Buffer
      BY CellFacts, OwnershipAssumption DEF Data
    <3> QED
      BY <1>1, <2>2, <3>1, NewUnowned DEF make_result
  <2> QED
    BY <1>1, <2>1, <2>2 DEF make_result
<1>2. ASSUME NEW o \in Obj, NEW r \in Raw, FromRaw(o, r) PROVE OwnInv'
  <2>1. o \in Holder /\ r \in Holder /\ o # r
    BY <1>0, <1>2, OwnershipAssumption
  <2> QED
    BY <1>0, <1>2, <2>1, HandOver, CellFacts DEF FromRaw
<1>3. ASSUME NEW o \in Obj, HostCall(o) PROVE OwnInv'
  BY <1>0, <1>3, NewUnowned DEF HostCall, OwnInv, HostInv
<1>4. ASSUME NEW o \in Obj, Destroy(o) PROVE OwnInv'
  BY <1>0, <1>4, ReleaseAndForget DEF Destroy
<1>5. ASSUME NEW o \in Obj, NEW p \in Obj, MoveConstruct(o, p) PROVE OwnInv'
  <2>1. o \in Holder /\ p \in Holder /\ o # p /\ cell[p] \in Cell
    BY <1>0, <1>5 DEF MoveConstruct
  <2> QED
    BY <1>0, <1>5, <2>1, HandOver, CellFacts DEF MoveConstruct
<1>6. ASSUME NEW o \in Obj, NEW p \in Obj, MoveAssign(o, p) PROVE OwnInv'
  BY <1>6, AssignStep
<1>7. ASSUME NEW o \in Obj, NEW r \in Raw, release_raw(o, r) PROVE OwnInv'
  <2>1. o \in Holder /\ r \in Holder /\ o # r /\ cell[o] \in Cell
    BY <1>0, <1>7, OwnershipAssumption
  <2>2. PICK c \in Cell : c = Disowned(cell[o])
    BY <2>1, CellFacts
  <2>3. ~c.release /\ c.spent /\ c.data = cell[o].data
    BY <2>1, <2>2, CellFacts
  <2>4. ~cell[r].release
    BY <1>0, <1>7, <2>1 DEF release_raw, OwnInv, HolderInv
  <2>5. /\ cell' = [cell EXCEPT ![r] = cell[o], ![o] = c]
        /\ UNCHANGED <<allocated, fresh, releases, call_result>>
    BY <1>7, <2>2 DEF release_raw
  <2> QED
    BY <1>0, <2>1, <2>3, <2>4, <2>5, HandOver
<1>8. ASSUME NEW r \in Raw, qrvmc_release_result(r) PROVE OwnInv'
  BY <1>0, <1>8, ReleaseAndForget DEF qrvmc_release_result
<1>9. CASE UNCHANGED vars
  BY <1>9 DEF OwnInv, TypeOK, HolderInv, BufferInv, HostInv, vars
<1> QED
  BY <1>1, <1>2, <1>3, <1>4, <1>5, <1>6, <1>7, <1>8, <1>9 DEF Next

------------------------------------------------------------------------------
(* The ownership invariant of the whole system.                            *)
LEMMA OwnInvariant == ASSUME ~HostResultOwned PROVE Spec => []OwnInv
<1>1. Init => OwnInv
  BY OwnInit
<1> QED
  BY <1>1, OwnStep, PTL DEF Spec

(* The release function of an output never runs twice.                     *)
THEOREM NeverReleasedTwice == ASSUME ~HostResultOwned PROVE Spec => []ReleasedAtMostOnce
<1>1. OwnInv => ReleasedAtMostOnce
  BY DEF OwnInv, BufferInv, ReleasedAtMostOnce
<1> QED
  BY <1>1, OwnInvariant, PTL

(* Every allocated output has exactly one holder that will release it:     *)
(* no operation leaks an output or gives it two owners.                    *)
THEOREM UniqueOwner == ASSUME ~HostResultOwned PROVE Spec => []OneOwner
<1>1. OwnInv => OneOwner
  <2> SUFFICES ASSUME OwnInv, NEW b \in allocated
               PROVE  \E h \in Holder :
                         /\ cell[h].alive /\ cell[h].release /\ cell[h].data = b
                         /\ \A g \in Holder \ {h} : ~(cell[g].release /\ cell[g].data = b)
    BY DEF OneOwner
  <2>1. PICK h \in Holder : cell[h].release /\ cell[h].data = b
    BY DEF OwnInv, BufferInv
  <2>2. cell[h].alive
    BY <2>1 DEF OwnInv, HolderInv
  <2>3. \A g \in Holder \ {h} : ~(cell[g].release /\ cell[g].data = b)
    BY <2>1 DEF OwnInv, HolderInv
  <2> QED
    BY <2>1, <2>2, <2>3
<1> QED
  BY <1>1, OwnInvariant, PTL

(* The output of a result that was not moved from can always be read.      *)
THEOREM OutputStaysReadable == ASSUME ~HostResultOwned PROVE Spec => []OutputReadable
<1>1. OwnInv => OutputReadable
  BY DEF OwnInv, HolderInv, OutputReadable
<1> QED
  BY <1>1, OwnInvariant, PTL

-------------------------------------------------------------------------------
(* The types, and that a place without an object points to nothing.        *)
HandleTypeInv ==
    /\ objects \subseteq Handle
    /\ m_instance \in [Handle -> Instance \cup {nullptr}]
    /\ raw \subseteq Instance /\ live \subseteq Instance /\ unborn \subseteq Instance
    /\ destroyed \in [Instance -> Nat]
    /\ \A h \in Handle : h \notin objects => m_instance[h] = nullptr

(* A handle points to an instance that is alive and that nobody has as a   *)
(* raw pointer, and no other handle points to it.                          *)
PointerInv ==
    /\ \A h \in Handle : m_instance[h] # nullptr => m_instance[h] \in live /\ m_instance[h] \notin raw
    /\ \A g, h \in Handle : m_instance[g] = m_instance[h] /\ m_instance[h] # nullptr => g = h

(* A live instance is raw or in a handle; it was not destroyed before, nor *)
(* was one that does not exist yet.                                        *)
InstanceInv ==
    /\ raw \subseteq live
    /\ \A i \in live : i \in raw \/ \E h \in Handle : m_instance[h] = i
    /\ \A i \in unborn : i \notin live
    /\ \A i \in live \cup unborn : destroyed[i] = 0
    /\ \A i \in Instance : destroyed[i] <= 1

HandleInv == HandleTypeInv /\ PointerInv /\ InstanceInv

------------------------------------------------------------------------------
LEMMA HandleInvInit == HandleInit => HandleInv
BY HandleAssumption DEF HandleInit, HandleInv, HandleTypeInv, PointerInv, InstanceInv

(* A new instance is raw.                                                  *)
LEMMA CreateStep == ASSUME HandleInv, NEW i \in Instance, qrvmc_create(i) PROVE HandleInv'
<1> USE HandleAssumption DEF HandleInv, qrvmc_create
<1>1. HandleTypeInv'
  BY DEF HandleTypeInv
<1>2. PointerInv'
  BY DEF HandleTypeInv, PointerInv, InstanceInv
<1>3. InstanceInv'
  BY DEF HandleTypeInv, InstanceInv
<1> QED
  BY <1>1, <1>2, <1>3

(* Destroying a raw instance concerns no handle.                           *)
LEMMA DestroyRawStep == ASSUME HandleInv, NEW i \in Instance, qrvmc_destroy(i) PROVE HandleInv'
<1> USE HandleAssumption DEF HandleInv, qrvmc_destroy
<1>1. HandleTypeInv'
  BY DEF HandleTypeInv
<1>2. PointerInv'
  BY DEF HandleTypeInv, PointerInv
<1>3. InstanceInv'
  BY DEF HandleTypeInv, InstanceInv
<1> QED
  BY <1>1, <1>2, <1>3

(* A handle takes a raw pointer over.                                      *)
LEMMA ConstructStep ==
    ASSUME HandleInv, NEW h \in Handle, NEW i \in Instance \cup {nullptr}, VM_construct(h, i)
    PROVE  HandleInv'
<1> USE HandleAssumption DEF HandleInv, VM_construct
<1>1. HandleTypeInv'
  BY DEF HandleTypeInv
<1>2. PointerInv'
  BY DEF HandleTypeInv, PointerInv, InstanceInv
<1>3. InstanceInv'
  <2>1. \A j \in live : j \in raw' \/ \E g \in Handle : m_instance'[g] = j
    <3> SUFFICES ASSUME NEW j \in live, j \notin raw'
                 PROVE  \E g \in Handle : m_instance'[g] = j
      OBVIOUS
    <3>1. CASE j = i
      BY <3>1 DEF HandleTypeInv
    <3>2. CASE j # i
      <4>1. j \notin raw
        BY <3>2 DEF InstanceInv
      <4>2. PICK g \in Handle : m_instance[g] = j
        BY <4>1 DEF InstanceInv
      <4>3. g # h
        BY <4>2, HandleAssumption DEF HandleTypeInv
      <4> QED
        BY <4>2, <4>3 DEF HandleTypeInv
    <3> QED
      BY <3>1, <3>2
  <2> QED
    BY <2>1 DEF InstanceInv
<1> QED
  BY <1>1, <1>2, <1>3

(* Moving the pointer from a handle to one that has none.                  *)
LEMMA MoveConstructStep ==
    ASSUME HandleInv, NEW h \in Handle, NEW other \in Handle, VM_move_construct(h, other)
    PROVE  HandleInv'
<1> USE HandleAssumption DEF HandleInv, VM_move_construct
<1>1. h # other /\ m_instance[h] = nullptr
  BY DEF HandleTypeInv
<1>2. /\ m_instance'[h] = m_instance[other] /\ m_instance'[other] = nullptr
      /\ \A g \in Handle : g # h /\ g # other => m_instance'[g] = m_instance[g]
  BY <1>1 DEF HandleTypeInv
<1>3. HandleTypeInv'
  BY DEF HandleTypeInv
<1>4. PointerInv'
  BY <1>1, <1>2 DEF HandleTypeInv, PointerInv
<1>5. InstanceInv'
  BY <1>1, <1>2 DEF HandleTypeInv, InstanceInv
<1> QED
  BY <1>3, <1>4, <1>5

(* Taking the instance of a handle away and destroying it keeps the        *)
(* invariant, whatever becomes of the object.                              *)
LEMMA ReleaseStep ==
    ASSUME HandleInv, NEW h \in Handle,
           DestroyInstance(m_instance[h]),
           m_instance' = [m_instance EXCEPT ![h] = nullptr],
           objects' \in {objects, objects \ {h}},
           UNCHANGED <<raw, unborn>>
    PROVE  HandleInv'
<1> USE HandleAssumption DEF HandleInv
<1>1. /\ m_instance'[h] = nullptr
      /\ \A g \in Handle : g # h => m_instance'[g] = m_instance[g]
  BY DEF HandleTypeInv
<1>2. CASE m_instance[h] = nullptr
  <2>1. UNCHANGED <<live, destroyed>> /\ m_instance' = m_instance
    BY <1>2 DEF DestroyInstance, HandleTypeInv
  <2> QED
    BY <2>1, <1>2 DEF HandleTypeInv, PointerInv, InstanceInv
<1>3. CASE m_instance[h] # nullptr
  <2> DEFINE i == m_instance[h]
  <2>1. /\ i \in live /\ i \notin raw /\ i \in Instance /\ i \notin unborn
        /\ destroyed[i] = 0
        /\ \A g \in Handle : m_instance[g] = i => g = h
    BY <1>3 DEF HandleTypeInv, PointerInv, InstanceInv
  <2>2. live' = live \ {i} /\ destroyed' = [destroyed EXCEPT ![i] = @ + 1]
    BY <1>3 DEF DestroyInstance
  <2>3. HandleTypeInv'
    BY <1>1, <2>1, <2>2 DEF HandleTypeInv
  <2>4. PointerInv'
    BY <1>1, <2>1, <2>2 DEF HandleTypeInv, PointerInv
  <2>5. InstanceInv'
    BY <1>1, <2>1, <2>2 DEF HandleTypeInv, InstanceInv
  <2> QED
    BY <2>3, <2>4, <2>5
<1> QED
  BY <1>2, <1>3

(* The pointer and the right to destroy move together; a handle that is    *)
(* assigned to itself ends up empty.                                       *)
LEMMA MoveAssignStep ==
    ASSUME HandleInv, NEW h \in Handle, NEW other \in Handle, VM_move_assign(h, other)
    PROVE  HandleInv'
<1> USE HandleAssumption DEF HandleInv
<1>1. CASE h = other
  <2>1. m_instance' = [m_instance EXCEPT ![h] = nullptr]
    BY <1>1 DEF VM_move_assign, HandleTypeInv
  <2> QED
    BY <2>1, ReleaseStep DEF VM_move_assign
<1>2. CASE h # other
  <2>1. /\ m_instance'[h] = m_instance[other] /\ m_instance'[other] = nullptr
        /\ \A g \in Handle : g # h /\ g # other => m_instance'[g] = m_instance[g]
        /\ m_instance' \in [Handle -> Instance \cup {nullptr}]
    BY <1>2 DEF VM_move_assign, HandleTypeInv
  <2>2. h \in objects /\ other \in objects /\ UNCHANGED <<objects, raw, unborn>>
    BY DEF VM_move_assign
  <2>3. CASE m_instance[h] = nullptr
    <3>1. UNCHANGED <<live, destroyed>>
      BY <2>3 DEF VM_move_assign, DestroyInstance
    <3>2. HandleTypeInv'
      BY <2>1, <2>2, <3>1 DEF HandleTypeInv
    <3>3. PointerInv'
      BY <2>1, <2>2, <2>3, <3>1 DEF HandleTypeInv, PointerInv
    <3>4. InstanceInv'
      BY <2>1, <2>2, <2>3, <3>1 DEF HandleTypeInv, InstanceInv
    <3> QED
      BY <3>2, <3>3, <3>4
  <2>4. CASE m_instance[h] # nullptr
    <3> DEFINE i == m_instance[h]
    <3>1. /\ i \in live /\ i \notin raw /\ i \in Instance /\ i \notin unborn
          /\ destroyed[i] = 0
          /\ \A g \in Handle : m_instance[g] = i => g = h
      BY <2>4 DEF HandleTypeInv, PointerInv, InstanceInv
    <3>2. live' = live \ {i} /\ destroyed' = [destroyed EXCEPT ![i] = @ + 1]
      BY <2>4 DEF VM_move_assign, DestroyInstance
    <3>3. HandleTypeInv'
      BY <2>1, <2>2, <3>1, <3>2 DEF HandleTypeInv
    <3>4. PointerInv'
      BY <1>2, <2>1, <2>2, <3>1, <3>2 DEF HandleTypeInv, PointerInv
    <3>5. InstanceInv'
      BY <1>2, <2>1, <2>2, <3>1, <3>2 DEF HandleTypeInv, InstanceInv
    <3> QED
      BY <3>3, <3>4, <3>5
  <2> QED
    BY <2>3, <2>4
<1> QED
  BY <1>1, <1>2

LEMMA DestructStep == ASSUME HandleInv, NEW h \in Handle, VM_destruct(h) PROVE HandleInv'
BY ReleaseStep DEF VM_destruct

LEMMA HandleInvStep == HandleInv /\ [ApiNext]_apiVars => HandleInv'
<1> SUFFICES ASSUME HandleInv, [ApiNext]_apiVars PROVE HandleInv'
  OBVIOUS
<1>1. CASE HandleNext
  <2>1. ASSUME NEW i \in Instance, qrvmc_create(i) \/ qrvmc_destroy(i) PROVE HandleInv'
    BY <2>1, CreateStep, DestroyRawStep
  <2>2. ASSUME NEW h \in Handle, NEW i \in Instance \cup {nullptr},
               VM_construct(h, i) \/ VM_construct_options(h, i)
        PROVE  HandleInv'
    BY <2>2, ConstructStep DEF VM_construct_options
  <2>3. ASSUME NEW h \in Handle, NEW other \in Handle,
               VM_move_construct(h, other) \/ VM_move_assign(h, other)
        PROVE  HandleInv'
    BY <2>3, MoveConstructStep, MoveAssignStep
  <2>4. ASSUME NEW h \in Handle, VM_destruct(h) PROVE HandleInv'
    BY <2>4, DestructStep
  <2> QED
    BY <1>1, <2>1, <2>2, <2>3, <2>4 DEF HandleNext
<1>2. CASE UNCHANGED handleVars
  BY <1>2 DEF handleVars, HandleInv, HandleTypeInv, PointerInv, InstanceInv
<1> QED
  BY <1>1, <1>2 DEF ApiNext, apiVars, VM_execute

LEMMA HandleInvariant == ApiSpec => []HandleInv
<1>1. ApiInit => HandleInv
  BY HandleInvInit DEF ApiInit
<1> QED
  BY <1>1, HandleInvStep, PTL DEF ApiSpec

------------------------------------------------------------------------------
(* A live instance has one owner, a raw pointer or one handle, in whatever *)
(* order handles are made, moved, assigned (to themselves too) and         *)
(* destroyed: ~VM() leaks none and destroys none twice.                    *)
THEOREM HandlesOwnInstances == ApiSpec => []InstanceHasOneOwner
<1>1. HandleInv => InstanceHasOneOwner
  <2> SUFFICES ASSUME HandleInv, NEW i \in Instance
               PROVE  i \in live <=>
                        \/ i \in raw /\ \A h \in objects : m_instance[h] # i
                        \/ /\ i \notin raw
                           /\ \E h \in objects : /\ m_instance[h] = i
                                                 /\ \A g \in objects \ {h} : m_instance[g] # i
    BY DEF InstanceHasOneOwner
  <2> USE HandleAssumption DEF HandleInv
  <2>1. CASE i \in raw
    BY <2>1 DEF HandleTypeInv, PointerInv, InstanceInv
  <2>2. CASE i \notin raw /\ i \in live
    <3>1. PICK h \in Handle : m_instance[h] = i
      BY <2>2 DEF InstanceInv
    <3>2. h \in objects /\ \A g \in objects \ {h} : m_instance[g] # i
      BY <3>1 DEF HandleTypeInv, PointerInv
    <3> QED
      BY <2>2, <3>1, <3>2
  <2>3. CASE i \notin raw /\ i \notin live
    BY <2>3 DEF HandleTypeInv, PointerInv
  <2> QED
    BY <2>1, <2>2, <2>3
<1> QED
  BY <1>1, HandleInvariant, PTL

(* A handle is empty or points to an instance that is alive, and destroy() *)
(* of an instance runs at most once.                                       *)
THEOREM HandlesNeverDangle == ApiSpec => []NoHandleDangles
<1>1. HandleInv => NoHandleDangles
  BY DEF HandleInv, HandleTypeInv, PointerInv, InstanceInv, NoHandleDangles
<1> QED
  BY <1>1, HandleInvariant, PTL

(* To the results, executing code through a handle is one more way to call *)
(* qrvmc_make_result(), and nothing else that happens to handles matters:  *)
(* the API implements the specification of results alone.                  *)
THEOREM ResultsUnaffected == ApiSpec => Spec
<1>1. ApiInit => Init
  BY DEF ApiInit
<1>2. [ApiNext]_apiVars => [Next]_vars
  <2> SUFFICES ASSUME [ApiNext]_apiVars PROVE [Next]_vars
    OBVIOUS
  <2>1. CASE \E h \in Handle, o \in Obj : VM_execute(h, o)
    BY <2>1 DEF VM_execute, Next, Holder
  <2> QED
    BY <2>1 DEF ApiNext, apiVars
<1> QED
  BY <1>1, <1>2, PTL DEF ApiSpec, Spec

(* Destroying an instance, or moving its handle, never frees an output the *)
(* client still reads, and leaks none.                                     *)
THEOREM ResultsOutliveInstances ==
    ASSUME ~HostResultOwned PROVE ApiSpec => [](OutputReadable /\ OneOwner)
BY ResultsUnaffected, OutputStaysReadable, UniqueOwner, PTL
==============================================================================
