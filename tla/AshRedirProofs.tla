-------------------------- MODULE AshRedirProofs --------------------------
(***************************************************************************)
(* What is proved about redirection, for every number of descriptors and   *)
(* commands nested to every depth.                                         *)
(***************************************************************************)
EXTENDS AshRedir, SequenceTheorems, FiniteSetTheorems, TLAPS

Places == {"run", "redirect", "open", "pop", "popcopy", "popdrop", "reset",
           "program", "openprogram", "exited"}
Dest == Files \union {Closed}

Typed ==
  /\ fds \in [All -> Dest] /\ redirlist \in Seq(Frame)
  /\ pc \in Places /\ fd \in 0 .. Named /\ memory \subseteq Fds

(* Where the shell is tells what it may rely on.                           *)
Control ==
  /\ Popping => redirlist # <<>>
  /\ push /\ pc \in {"redirect", "open"} => redirlist # <<>>
  /\ pc \in {"program", "openprogram"} => ~push
  /\ pc \in {"open", "openprogram", "popcopy", "popdrop"} => fd \in Fds
  /\ pc \in {"popcopy", "popdrop"} => Old(fd) \in Slots

(* Frame i has yet to restore f from slot.                                 *)
Holds(i, f, slot) ==
  /\ i \in 1 .. Len(redirlist) /\ f \in Fds
  /\ redirlist[i].renamed[f] = slot
  /\ ~(Popping /\ i = Len(redirlist) /\ f < fd)

(* A slot is open exactly while one frame has yet to restore from it.      *)
Owned ==
  \A slot \in Slots :
    /\ Free(slot) <=> \A i, f : ~Holds(i, f, slot)
    /\ \A i, f, j, g : Holds(i, f, slot) /\ Holds(j, g, slot) => i = j /\ f = g

RInv == Typed /\ Control /\ Owned

LEMMA Numbers ==
  /\ Named \in Nat /\ Limit \in Nat /\ Named >= 2 /\ Named <= Limit
  /\ \A f \in Fds : f \in Nat /\ f < Named /\ f \in All /\ f \notin Slots
       /\ f # EMPTY /\ f # CLOSED
  /\ \A s \in Slots : s \in Nat /\ s \in All /\ s # EMPTY /\ s # CLOSED
  /\ \A f \in All : f \in Fds \/ f \in Slots
  /\ EMPTY \notin Slots /\ CLOSED \notin Slots /\ EMPTY # CLOSED
BY RedirAssumption DEF Fds, Slots, All, EMPTY, CLOSED

LEMMA FrameFacts ==
  ASSUME Typed
  PROVE  /\ Len(redirlist) \in Nat /\ DOMAIN redirlist = 1 .. Len(redirlist)
         /\ \A i \in 1 .. Len(redirlist) :
              /\ redirlist[i] \in Frame
              /\ redirlist[i].renamed \in [Fds -> {EMPTY, CLOSED} \union Slots]
         /\ redirlist # <<>> => Len(redirlist) \in 1 .. Len(redirlist)
<1>1. redirlist \in Seq(Frame)
  BY DEF Typed
<1>2. Len(redirlist) \in Nat /\ DOMAIN redirlist = 1 .. Len(redirlist)
  BY <1>1, LenProperties
<1>3. \A i \in 1 .. Len(redirlist) : redirlist[i] \in Frame
  BY <1>1, ElementOfSeq
<1>4. \A r \in Frame : r.renamed \in [Fds -> {EMPTY, CLOSED} \union Slots]
  BY DEF Frame
<1>5. redirlist # <<>> => Len(redirlist) \in 1 .. Len(redirlist)
  BY <1>1, <1>2, EmptySeq
<1> QED BY <1>2, <1>3, <1>4, <1>5

----------------------------------------------------------------------------
(* Types.                                                                  *)

LEMMA InitTyped == Init => Typed /\ Control
<1> SUFFICES ASSUME Init PROVE Typed /\ Control
  OBVIOUS
<1>1. redirlist \in Seq(Frame)
  BY EmptySeq DEF Init
<1>2. fd \in 0 .. Named
  BY Numbers DEF Init
<1> QED BY <1>1, <1>2 DEF Init, Typed, Control, Dest, Places, Popping

(* The one way redirlist changes at its last frame.                        *)
LEMMA SavedTyped ==
  ASSUME Typed, redirlist # <<>>, NEW f \in Fds, NEW v \in {EMPTY, CLOSED} \union Slots
  PROVE  /\ [redirlist EXCEPT ![Len(redirlist)].renamed[f] = v] \in Seq(Frame)
         /\ Len([redirlist EXCEPT ![Len(redirlist)].renamed[f] = v]) = Len(redirlist)
         /\ \A i \in 1 .. Len(redirlist) :
              LET r == [redirlist EXCEPT ![Len(redirlist)].renamed[f] = v][i]
              IN  /\ r.kind = redirlist[i].kind
                  /\ r.renamed = IF i = Len(redirlist) THEN [redirlist[i].renamed EXCEPT ![f] = v]
                                                       ELSE redirlist[i].renamed
<1> DEFINE n == Len(redirlist)
           top == [redirlist[n] EXCEPT !.renamed = [redirlist[n].renamed EXCEPT ![f] = v]]
<1>1. n \in 1 .. n /\ redirlist[n] \in Frame
      /\ redirlist[n].renamed \in [Fds -> {EMPTY, CLOSED} \union Slots]
  BY FrameFacts
<1>2. [redirlist[n].renamed EXCEPT ![f] = v] \in [Fds -> {EMPTY, CLOSED} \union Slots]
  BY <1>1
<1>3. top \in Frame /\ top.kind = redirlist[n].kind
      /\ top.renamed = [redirlist[n].renamed EXCEPT ![f] = v]
  BY <1>1, <1>2 DEF Frame
<1>4. [redirlist EXCEPT ![n].renamed[f] = v] = [redirlist EXCEPT ![n] = top]
  BY Zenon
<1>5. redirlist \in Seq(Frame)
  BY DEF Typed
<1> HIDE DEF top, n
<1>6. /\ [redirlist EXCEPT ![n] = top] \in Seq(Frame)
      /\ Len([redirlist EXCEPT ![n] = top]) = Len(redirlist)
      /\ \A i \in 1 .. Len(redirlist) :
           [redirlist EXCEPT ![n] = top][i] = IF i = n THEN top ELSE redirlist[i]
  BY <1>1, <1>3, <1>5, ExceptSeq DEF n
<1>7. \A i \in 1 .. Len(redirlist) :
        /\ [redirlist EXCEPT ![n] = top][i].kind = redirlist[i].kind
        /\ [redirlist EXCEPT ![n] = top][i].renamed =
             IF i = n THEN [redirlist[i].renamed EXCEPT ![f] = v] ELSE redirlist[i].renamed
  BY <1>3, <1>6
<1> QED BY <1>4, <1>6, <1>7 DEF n

LEMMA ClearedTyped ==
  ASSUME Typed
  PROVE  /\ Cleared \in Seq(Frame) /\ Len(Cleared) = Len(redirlist)
         /\ \A i \in 1 .. Len(redirlist) :
              /\ Cleared[i].kind = redirlist[i].kind
              /\ Cleared[i].renamed = [f \in Fds |-> EMPTY]
<1> DEFINE n == Len(redirlist)
<1>1. n \in Nat /\ DOMAIN redirlist = 1 .. n /\ \A i \in 1 .. n : redirlist[i] \in Frame
  BY FrameFacts
<1>2. [f \in Fds |-> EMPTY] \in [Fds -> {EMPTY, CLOSED} \union Slots]
  OBVIOUS
<1>3. \A r \in Frame :
        /\ [r EXCEPT !.renamed = [f \in Fds |-> EMPTY]] \in Frame
        /\ [r EXCEPT !.renamed = [f \in Fds |-> EMPTY]].kind = r.kind
        /\ [r EXCEPT !.renamed = [f \in Fds |-> EMPTY]].renamed = [f \in Fds |-> EMPTY]
  BY <1>2 DEF Frame
<1>4. Cleared \in [1 .. n -> Frame]
  BY <1>1, <1>3 DEF Cleared
<1>5. Cleared \in Seq(Frame) /\ DOMAIN Cleared = 1 .. n
  BY <1>1, <1>4, SeqDef
<1>6. Len(Cleared) = n
  BY <1>1, <1>5, LenProperties
<1>7. \A i \in 1 .. n : Cleared[i] = [redirlist[i] EXCEPT !.renamed = [f \in Fds |-> EMPTY]]
  BY <1>1, Zenon DEF Cleared
<1>8. \A i \in 1 .. n : /\ Cleared[i].kind = redirlist[i].kind
                       /\ Cleared[i].renamed = [f \in Fds |-> EMPTY]
  <2> SUFFICES ASSUME NEW i \in 1 .. n
               PROVE  /\ Cleared[i].kind = redirlist[i].kind
                      /\ Cleared[i].renamed = [f \in Fds |-> EMPTY]
    OBVIOUS
  <2>1. redirlist[i] \in Frame /\ Cleared[i] = [redirlist[i] EXCEPT !.renamed = [f \in Fds |-> EMPTY]]
    BY <1>1, <1>7
  <2> QED BY <1>3, <2>1, Zenon
<1> QED BY <1>5, <1>6, <1>8

LEMMA StepRedirlist ==
  ASSUME Typed, Control, [Next]_vars
  PROVE  redirlist' \in Seq(Frame)
<1>0. redirlist \in Seq(Frame)
  BY DEF Typed
<1>1. ASSUME NEW k \in Kinds, redirect(k) PROVE redirlist' \in Seq(Frame)
  <2>1. [renamed |-> [f \in Fds |-> EMPTY], kind |-> k] \in Frame
    BY DEF Frame
  <2> QED BY <1>0, <1>1, <2>1, AppendProperties DEF redirect
<1>2. ASSUME NEW f \in Fds, save(f) PROVE redirlist' \in Seq(Frame)
  <2>1. \/ redirlist' = redirlist
        \/ push /\ pc \in {"redirect", "program"} /\
             \E v \in {CLOSED} \union Slots : Saved(f, v)
    BY <1>2 DEF save, MustSave, copyfd, Base, Slots, Renamable
  <2>2. push /\ pc \in {"redirect", "program"} => redirlist # <<>>
    BY DEF Control
  <2>3. ASSUME NEW v \in {CLOSED} \union Slots, Saved(f, v), redirlist # <<>>
        PROVE  redirlist' \in Seq(Frame)
    <3>1. [redirlist EXCEPT ![Len(redirlist)].renamed[f] = v] \in Seq(Frame)
      BY <2>3, SavedTyped
    <3> QED BY <2>3, <3>1 DEF Saved
  <2> QED BY <1>0, <2>1, <2>2, <2>3
<1>3. clearredir => redirlist' = Cleared
  BY DEF clearredir
<1>4. ASSUME popredir_done PROVE redirlist' \in Seq(Frame)
  <2>1. redirlist' = SubSeq(redirlist, 1, Len(redirlist) - 1) /\ redirlist # <<>>
    BY <1>4 DEF popredir_done, Control, Popping
  <2>2. Len(redirlist) \in Nat /\ \A i \in 1 .. Len(redirlist) - 1 : redirlist[i] \in Frame
    BY FrameFacts
  <2> QED BY <2>1, <2>2, SubSeqProperties
<1>5. exec \/ OutOfDescriptors \/ openredirect \/ Redirected \/ Complete \/ Fails
        \/ popredir_close \/ popredir_copy \/ popredir_drop \/ reset \/ onint \/ UNCHANGED vars
        => redirlist' = redirlist
  BY DEF exec, OutOfDescriptors, openredirect, openredirect_file, openredirect_dup,
         openredirect_close, CannotOpen, Opened, Redirected, Complete, Fails, error,
         popredir_close, popredir_copy, popredir_drop, reset, onint, vars
<1> QED BY <1>0, <1>1, <1>2, <1>3, <1>4, <1>5, ClearedTyped DEF Next, popredir

LEMMA StepFds ==
  ASSUME Typed, Control, [Next]_vars
  PROVE  fds' \in [All -> Dest]
<1>0. fds \in [All -> Dest] /\ Closed \in Dest /\ \A f \in All : fds[f] \in Dest
  BY DEF Typed, Dest
<1>1. ASSUME NEW f \in Fds, save(f) PROVE fds' \in [All -> Dest]
  <2>1. fds[f] \in Dest
    BY <1>0, Numbers
  <2> QED BY <1>0, <1>1, <2>1 DEF save
<1>2. clearredir => fds' \in [All -> Dest]
  BY <1>0 DEF clearredir
<1>3. openredirect => fds' \in [All -> Dest]
  BY <1>0, Numbers DEF openredirect, openredirect_file, openredirect_dup, openredirect_close,
     CannotOpen, Dest
<1>4. popredir_close => fds' \in [All -> Dest]
  BY <1>0 DEF popredir_close
<1>5. popredir_copy => fds' \in [All -> Dest]
  <2>1. pc = "popcopy" => Old(fd) \in All
    BY Numbers DEF Control
  <2> QED BY <1>0, <2>1 DEF popredir_copy
<1>6. popredir_drop => fds' \in [All -> Dest]
  BY <1>0 DEF popredir_drop, Dropped
<1>7. exec \/ OutOfDescriptors \/ Redirected \/ Complete \/ Fails \/ popredir_done
        \/ reset \/ onint \/ UNCHANGED vars \/ (\E k \in Kinds : redirect(k))
        => fds' = fds
  BY DEF exec, OutOfDescriptors, Redirected, Complete, Fails, popredir_done, reset, onint,
         vars, redirect
<1> QED BY <1>0, <1>1, <1>2, <1>3, <1>4, <1>5, <1>6, <1>7 DEF Next, popredir

LEMMA StepTyped ==
  ASSUME Typed, Control, [Next]_vars
  PROVE  Typed'
<1>1. pc' \in Places
  BY DEF Typed, Places, Next, redirect, save, exec, clearredir, OutOfDescriptors, error,
     openredirect, openredirect_file, openredirect_dup, openredirect_close, CannotOpen, Opened,
     Redirected, Complete, Fails, popredir, popredir_close, popredir_copy, popredir_drop,
     popredir_done, reset, onint, vars
<1>2. fd' \in 0 .. Named
  <2>1. \A f \in Fds : save(f) => fd' = f
    BY DEF save
  <2>2. popredir_close => fd' = fd \/ (fd < Named /\ fd' = fd + 1)
    BY DEF popredir_close
  <2>3. popredir_drop => fd \in Fds /\ fd' = fd + 1
    BY DEF popredir_drop, Control
  <2>4. exec \/ clearredir \/ OutOfDescriptors \/ openredirect \/ Redirected \/ Complete
          \/ Fails \/ popredir_copy \/ popredir_done \/ reset \/ onint \/ UNCHANGED vars
          \/ (\E k \in Kinds : redirect(k))
          => fd' = fd \/ fd' = 0
    BY DEF exec, clearredir, OutOfDescriptors, error, openredirect, openredirect_file,
       openredirect_dup, openredirect_close, CannotOpen, Opened, Redirected, Complete, Fails,
       popredir_copy, popredir_done, reset, onint, vars, redirect
  <2>5. \/ fd' = fd \/ fd' = 0 \/ fd' \in Fds
        \/ fd' = fd + 1 /\ (fd < Named \/ fd \in Fds)
    BY <2>1, <2>2, <2>3, <2>4 DEF Next, popredir
  <2> QED BY <2>5, Numbers DEF Typed
<1>3. memory' \subseteq Fds
  <2>1. 1 \in Fds
    BY Numbers DEF Fds
  <2>2. \A k \in Kinds : redirect(k) => memory' \in {{}, {1}}
    BY DEF redirect
  <2>3. \A f \in Fds : save(f) => memory' = memory \ {f}
    BY DEF save
  <2>4. openredirect => memory' = memory \/ (fd \in Fds /\ memory' = memory \union {fd})
    BY DEF openredirect, openredirect_file, openredirect_dup, openredirect_close, CannotOpen,
       error, Opening, Control
  <2>5. exec \/ clearredir \/ OutOfDescriptors \/ Redirected \/ Complete
          \/ Fails \/ popredir \/ reset \/ onint \/ UNCHANGED vars
          => memory' = memory \/ memory' = {}
    BY DEF exec, clearredir, OutOfDescriptors, error, Redirected, Complete, Fails, popredir,
       popredir_close, popredir_copy, popredir_drop, popredir_done, reset, onint, vars
  <2> QED BY <2>1, <2>2, <2>3, <2>4, <2>5 DEF Typed, Next
<1> QED BY <1>1, <1>2, <1>3, StepRedirlist, StepFds DEF Typed

LEMMA StepControl ==
  ASSUME ~PopInterrupts, Typed, Control, [Next]_vars
  PROVE  Control'
<1> USE DEF Control, Popping
<1>0. redirlist \in Seq(Frame)
  BY DEF Typed
<1>1. ASSUME NEW k \in Kinds, redirect(k) PROVE Control'
  <2>1. redirlist' = Append(redirlist, [renamed |-> [f \in Fds |-> EMPTY], kind |-> k])
        /\ pc' = "redirect"
    BY <1>1 DEF redirect
  <2>2. Len(redirlist) \in Nat /\ Len(redirlist') = Len(redirlist) + 1
    BY <2>1, FrameFacts
  <2>3. redirlist' # <<>>
    BY <2>2
  <2> QED BY <2>1, <2>3
<1>2. ASSUME NEW f \in Fds, save(f) PROVE Control'
  <2>1. /\ fd' = f /\ push' = push /\ pc \in {"redirect", "program"}
        /\ pc' = IF pc = "program" THEN "openprogram" ELSE "open"
    BY <1>2 DEF save, Renamable
  <2>2. push => redirlist' # <<>>
    <3>1. ASSUME push PROVE redirlist # <<>>
      BY <2>1, <3>1
    <3>2. \/ redirlist' = redirlist \/ \E v \in {CLOSED} \union Slots : Saved(f, v)
      BY <1>2 DEF save, copyfd, Base, Slots
    <3>3. ASSUME NEW v \in {CLOSED} \union Slots, Saved(f, v), redirlist # <<>>
          PROVE  redirlist' # <<>>
      <4>1. Len(redirlist') = Len(redirlist) /\ Len(redirlist) >= 1
        BY <3>3, SavedTyped, FrameFacts DEF Saved
      <4> QED BY <4>1
    <3> QED BY <3>1, <3>2, <3>3
  <2> QED BY <2>1, <2>2
<1>3. exec \/ clearredir => Control'
  BY DEF exec, clearredir
<1>4. OutOfDescriptors \/ Fails \/ CannotOpen => Control'
  BY DEF OutOfDescriptors, Fails, CannotOpen, error
<1>5. ASSUME openredirect, ~CannotOpen PROVE Control'
  <2>1. Opening /\ Opened
    BY <1>5 DEF openredirect, openredirect_file, openredirect_dup, openredirect_close
  <2> QED BY <2>1 DEF Opened, Opening
<1>6. Redirected => Control'
  BY DEF Redirected
<1>7. Complete \/ reset => Control'
  BY DEF Complete, reset
<1>8. ASSUME popredir_close PROVE Control'
  <2>1. pc = "pop" /\ fd < Named /\ UNCHANGED <<redirlist, push>>
        /\ \/ pc' = "pop"
           \/ pc' = "popcopy" /\ fd' = fd /\ Old(fd) # EMPTY /\ Old(fd) # CLOSED
    BY <1>8 DEF popredir_close
  <2>2. fd \in Fds
    BY <2>1, Numbers DEF Typed, Fds
  <2>3. Old(fd) \in {EMPTY, CLOSED} \union Slots
    BY <2>1, <2>2, FrameFacts DEF Old, Top
  <2> QED BY <2>1, <2>2, <2>3 DEF Old, Top
<1>9. popredir_copy \/ popredir_drop => Control'
  BY DEF popredir_copy, popredir_drop, Old, Top
<1>10. popredir_done => Control'
  BY DEF popredir_done
<1>11. onint => Control'
  BY DEF onint
<1>12. UNCHANGED vars => Control'
  BY DEF vars, Old, Top
<1> QED BY <1>1, <1>2, <1>3, <1>4, <1>5, <1>6, <1>7, <1>8, <1>9, <1>10, <1>11, <1>12
    DEF Next, popredir

----------------------------------------------------------------------------
(* Who holds which slot.                                                   *)

LEMMA InitOwned == Init => Owned
<1> SUFFICES ASSUME Init PROVE Owned
  OBVIOUS
<1>1. redirlist = <<>> /\ Len(<<>>) = 0
  BY DEF Init
<1>2. \A i, f, slot : ~Holds(i, f, slot)
  BY <1>1 DEF Holds
<1>3. \A slot \in Slots : Free(slot)
  BY DEF Init, Free
<1> QED BY <1>2, <1>3 DEF Owned

(* The slots are as they were, and so are their holders.                   *)
LEMMA OwnedSame ==
  ASSUME Owned, \A slot \in Slots : fds'[slot] = fds[slot],
         \A i, f : \A slot \in Slots : Holds(i, f, slot)' <=> Holds(i, f, slot)
  PROVE  Owned'
BY DEF Owned, Free

LEMMA HoldsSame ==
  ASSUME redirlist' = redirlist, ~Popping, ~Popping' \/ fd' = 0
  PROVE  \A i, f, slot : Holds(i, f, slot)' <=> Holds(i, f, slot)
<1>1. \A f \in Fds : ~(f < 0)
  BY Numbers
<1> QED BY <1>1 DEF Holds

LEMMA RedirectOwned ==
  ASSUME Typed, Owned, NEW k \in Kinds, redirect(k)
  PROVE  Owned'
<1> DEFINE frame == [renamed |-> [f \in Fds |-> EMPTY], kind |-> k]
<1>1. redirlist \in Seq(Frame) /\ frame \in Frame /\ redirlist' = Append(redirlist, frame)
      /\ fds' = fds /\ ~Popping /\ ~Popping'
  BY DEF Typed, Frame, redirect, Popping
<1>2. \A f \in Fds : frame.renamed[f] = EMPTY
  OBVIOUS
<1> HIDE DEF frame
<1>3. /\ Len(redirlist) \in Nat /\ Len(redirlist') = Len(redirlist) + 1
      /\ \A i \in 1 .. Len(redirlist) : redirlist'[i] = redirlist[i]
      /\ redirlist'[Len(redirlist) + 1] = frame
  BY <1>1, FrameFacts, AppendProperties
<1>4. ASSUME NEW i, NEW f, NEW slot \in Slots
      PROVE  Holds(i, f, slot)' <=> Holds(i, f, slot)
  <2>1. CASE i = Len(redirlist) + 1
    <3>1. ~Holds(i, f, slot)
      BY <1>3, <2>1 DEF Holds
    <3>2. ~Holds(i, f, slot)'
      BY <1>2, <1>3, <2>1, Numbers DEF Holds
    <3> QED BY <3>1, <3>2
  <2>2. CASE i # Len(redirlist) + 1
    <3>1. i \in 1 .. Len(redirlist') <=> i \in 1 .. Len(redirlist)
      BY <1>3, <2>2
    <3> QED BY <1>1, <1>3, <3>1 DEF Holds
  <2> QED BY <2>1, <2>2
<1> QED BY <1>1, <1>4, OwnedSame

LEMMA SaveOwned ==
  ASSUME Typed, Control, Owned, NEW f \in Fds, save(f)
  PROVE  Owned'
<1> DEFINE n == Len(redirlist)
<1>0. ~Popping /\ ~Popping' /\ f \in All /\ f \notin Slots /\ fds \in [All -> Dest]
  BY Numbers DEF save, Renamable, Popping, Typed
<1>1. MustSave(f) => n \in 1 .. n /\ Old(f) = EMPTY
  BY FrameFacts DEF save, Renamable, MustSave, Control
<1>2. ASSUME NEW v \in {CLOSED} \union Slots, MustSave(f), Saved(f, v)
      PROVE  \A i, g : \A slot \in Slots :
               Holds(i, g, slot)' <=> \/ Holds(i, g, slot)
                                      \/ i = n /\ g = f /\ slot = v
  <2>1. /\ Len(redirlist') = n
        /\ \A i \in 1 .. n :
              redirlist'[i].renamed = IF i = n THEN [redirlist[i].renamed EXCEPT ![f] = v]
                                               ELSE redirlist[i].renamed
    BY <1>1, <1>2, FrameFacts, SavedTyped DEF Saved
  <2>2. redirlist[n].renamed \in [Fds -> {EMPTY, CLOSED} \union Slots]
        /\ redirlist[n].renamed[f] = EMPTY
    BY <1>1, <1>2, FrameFacts DEF Old, Top
  <2>3. ASSUME NEW i, NEW g, NEW slot \in Slots
        PROVE  Holds(i, g, slot)' <=> Holds(i, g, slot) \/ (i = n /\ g = f /\ slot = v)
    <3>1. CASE i = n /\ g = f
      <4>1. ~Holds(i, g, slot)
        BY <2>2, <3>1, Numbers DEF Holds
      <4>2. Holds(i, g, slot)' <=> slot = v
        BY <1>0, <1>1, <1>2, <2>1, <2>2, <3>1 DEF Holds
      <4> QED BY <3>1, <4>1, <4>2
    <3>2. CASE ~(i = n /\ g = f)
      <4>1. i \in 1 .. n /\ g \in Fds => redirlist'[i].renamed[g] = redirlist[i].renamed[g]
        BY <2>1, <2>2, <3>2
      <4> QED BY <1>0, <2>1, <3>2, <4>1 DEF Holds
    <3> QED BY <3>1, <3>2
  <2> QED BY <2>3
<1>3. CASE /\ MustSave(f) /\ ~Free(f)
           /\ \E slot \in All :
                /\ copyfd(slot) /\ Saved(f, slot)
                /\ fds' = [fds EXCEPT ![slot] = fds[f], ![f] = Closed]
  <2>1. PICK slot \in All :
          /\ copyfd(slot) /\ Saved(f, slot)
          /\ fds' = [fds EXCEPT ![slot] = fds[f], ![f] = Closed]
    BY <1>3
  <2>2. slot \in Slots /\ Free(slot)
    BY <2>1 DEF copyfd, Base, Slots
  <2>3. \A i, g : \A s \in Slots :
          Holds(i, g, s)' <=> Holds(i, g, s) \/ (i = n /\ g = f /\ s = slot)
    BY <1>2, <1>3, <2>1, <2>2
  <2>4. ~Free(slot)' /\ \A s \in Slots : s # slot => (Free(s)' <=> Free(s))
    <3>1. \A s \in Slots : s \in All /\ s # f
      BY <1>0, Numbers
    <3> QED BY <1>0, <1>3, <2>1, <2>2, <3>1 DEF Free
  <2>5. \A i, g : ~Holds(i, g, slot)
    BY <2>2 DEF Owned
  <2>6. ASSUME NEW s \in Slots
        PROVE  /\ Free(s)' <=> \A i, g : ~Holds(i, g, s)'
               /\ \A i, g, j, h : Holds(i, g, s)' /\ Holds(j, h, s)' => i = j /\ g = h
    <3>1. CASE s = slot
      <4>1. PICK k : k = n
        OBVIOUS
      <4>2. \A i, g : Holds(i, g, s)' <=> i = k /\ g = f
        BY <2>3, <2>5, <3>1, <4>1
      <4>3. Holds(k, f, s)'
        BY <4>2
      <4>4. ~Free(s)'
        BY <2>4, <3>1
      <4> QED BY <4>2, <4>3, <4>4
    <3>2. CASE s # slot
      <4>1. \A i, g : Holds(i, g, s)' <=> Holds(i, g, s)
        BY <2>3, <3>2
      <4> QED BY <2>4, <3>2, <4>1 DEF Owned
    <3> QED BY <3>1, <3>2
  <2> QED BY <2>6 DEF Owned
<1>4. CASE MustSave(f) /\ Free(f) /\ Saved(f, CLOSED) /\ UNCHANGED fds
  <2>1. \A i, g : \A slot \in Slots :
          Holds(i, g, slot)' <=> Holds(i, g, slot) \/ (i = n /\ g = f /\ slot = CLOSED)
    BY <1>2, <1>4
  <2> QED BY <1>4, <2>1, OwnedSame, Numbers
<1>5. CASE fds' = [fds EXCEPT ![f] = Closed] /\ UNCHANGED redirlist
  <2>1. \A slot \in Slots : fds'[slot] = fds[slot]
    BY <1>0, <1>5, Numbers
  <2> QED BY <1>0, <1>5, <2>1, HoldsSame, OwnedSame
<1> QED BY <1>3, <1>4, <1>5 DEF save

LEMMA ClearOwned ==
  ASSUME Typed, Owned, clearredir
  PROVE  Owned'
<1>1. redirlist' = Cleared /\ ~Popping /\ ~Popping'
      /\ fds' = [f \in All |->
           IF \E i \in DOMAIN redirlist, g \in Fds : redirlist[i].renamed[g] = f
           THEN Closed ELSE fds[f]]
  BY DEF clearredir, Popping
<1>2. ASSUME NEW i, NEW f, NEW slot \in Slots PROVE ~Holds(i, f, slot)'
  <2>1. i \in 1 .. Len(redirlist') /\ f \in Fds => redirlist'[i].renamed[f] = EMPTY
    BY <1>1, ClearedTyped
  <2> QED BY <2>1, Numbers DEF Holds
<1>3. ASSUME NEW slot \in Slots PROVE Free(slot)'
  <2>1. CASE Free(slot)
    BY <1>1, <2>1, Numbers DEF Free
  <2>2. CASE \E i, f : Holds(i, f, slot)
    BY <1>1, <2>2, FrameFacts, Numbers DEF Free, Holds
  <2> QED BY <2>1, <2>2 DEF Owned
<1> QED BY <1>2, <1>3 DEF Owned

LEMMA FrontFacts ==
  ASSUME NEW S, NEW s \in Seq(S), Len(s) \in 1 .. Len(s)
  PROVE  /\ SubSeq(s, 1, Len(s) - 1) \in Seq(S)
         /\ Len(SubSeq(s, 1, Len(s) - 1)) = Len(s) - 1
         /\ \A i \in 1 .. Len(s) - 1 : SubSeq(s, 1, Len(s) - 1)[i] = s[i]
<1> DEFINE m == Len(s) - 1
           q == SubSeq(s, 1, m)
<1>1. Len(s) \in Nat /\ m \in Nat /\ \A i \in 1 .. m : s[i] \in S
  BY LenProperties, ElementOfSeq
<1> HIDE DEF m
<1>2. /\ q \in Seq(S) /\ Len(q) = IF 1 <= m THEN m - 1 + 1 ELSE 0
      /\ \A i \in 1 .. m - 1 + 1 : q[i] = s[1 + i - 1]
  BY <1>1, SubSeqProperties
<1> HIDE DEF q
<1>3. Len(q) = m /\ \A i \in 1 .. m : q[i] = s[i]
  BY <1>1, <1>2
<1> QED BY <1>2, <1>3 DEF m, q

LEMMA PopOwned ==
  ASSUME Typed, Control, Owned, popredir
  PROVE  Owned'
<1> DEFINE n == Len(redirlist)
<1>0. /\ Popping /\ n \in Nat /\ n \in 1 .. n /\ fds \in [All -> Dest]
      /\ fd \in 0 .. Named /\ \A f \in Fds : f \in Nat
      /\ \A f \in Fds : redirlist[n].renamed[f] = Old(f)
  BY FrameFacts, Numbers DEF popredir, popredir_close, popredir_copy, popredir_drop, popredir_done,
     Popping, Control, Typed, Old, Top
<1>1. CASE popredir_close
  <2>1. /\ redirlist' = redirlist /\ Popping' /\ fd \in Fds
        /\ fds' = fds \/ fds' = [fds EXCEPT ![fd] = Closed]
        /\ fd' = fd \/ (fd' = fd + 1 /\ Old(fd) \in {EMPTY, CLOSED})
    BY <1>0, <1>1, Numbers DEF popredir_close, Popping, Fds
  <2>2. \A slot \in Slots : fds'[slot] = fds[slot]
    BY <1>0, <2>1, Numbers
  <2>3. ASSUME NEW i, NEW f, NEW slot \in Slots
        PROVE  Holds(i, f, slot)' <=> Holds(i, f, slot)
    <3>1. CASE i = n /\ f = fd /\ fd' = fd + 1
      BY <1>0, <2>1, <3>1, Numbers DEF Holds
    <3>2. CASE ~(i = n /\ f = fd /\ fd' = fd + 1)
      <4>1. f \in Fds => (i = n /\ f < fd <=> i = n /\ f < fd')
        BY <1>0, <2>1, <3>2
      <4> QED BY <1>0, <2>1, <4>1 DEF Holds
    <3> QED BY <3>1, <3>2
  <2> QED BY <2>2, <2>3, OwnedSame
<1>2. CASE popredir_copy
  <2>1. redirlist' = redirlist /\ Popping' /\ fd' = fd /\ fd \in Fds
        /\ \A slot \in Slots : fds'[slot] = fds[slot]
    BY <1>0, <1>2, Numbers DEF popredir_copy, Popping, Control
  <2>2. \A i, f, slot : Holds(i, f, slot)' <=> Holds(i, f, slot)
    BY <1>0, <2>1 DEF Holds
  <2> QED BY <2>1, <2>2, OwnedSame
<1>3. CASE popredir_drop
  <2>0. PICK s \in Slots : s = Old(fd)
    BY <1>3 DEF popredir_drop, Control
  <2>1. redirlist' = redirlist /\ Popping' /\ fd' = fd + 1 /\ fd \in Fds
        /\ fds' = [fds EXCEPT ![s] = Closed]
    BY <1>3, <2>0 DEF popredir_drop, Dropped, Popping, Control
  <2>2. Holds(n, fd, s)
    BY <1>0, <2>0, <2>1, Numbers DEF Holds
  <2>3. ASSUME NEW i, NEW f, NEW slot \in Slots
        PROVE  Holds(i, f, slot)' <=> Holds(i, f, slot) /\ ~(i = n /\ f = fd)
    <3>1. f \in Fds => (f < fd + 1 <=> f < fd \/ f = fd)
      BY <1>0, <2>1
    <3> QED BY <1>0, <2>1, <3>1 DEF Holds
  <2>4. ASSUME NEW slot \in Slots, slot # s
        PROVE  /\ Free(slot)' <=> Free(slot)
               /\ \A i, f : Holds(i, f, slot)' <=> Holds(i, f, slot)
    <3>1. fds'[slot] = fds[slot]
      BY <1>0, <2>1, <2>4, Numbers
    <3>2. \A i, f : Holds(i, f, slot) => ~(i = n /\ f = fd)
      BY <1>0, <2>0, <2>4 DEF Holds
    <3> QED BY <2>3, <3>1, <3>2 DEF Free
  <2>5. Free(s)' /\ \A i, f : ~Holds(i, f, s)'
    <3>1. fds'[s] = Closed
      BY <1>0, <2>1, Numbers
    <3>2. \A i, f : Holds(i, f, s) => i = n /\ f = fd
      BY <2>2 DEF Owned
    <3> QED BY <2>3, <3>1, <3>2 DEF Free
  <2>6. ASSUME NEW slot \in Slots
        PROVE  /\ Free(slot)' <=> \A i, f : ~Holds(i, f, slot)'
               /\ \A i, f, j, g : Holds(i, f, slot)' /\ Holds(j, g, slot)' => i = j /\ f = g
    <3>1. CASE slot = s
      BY <2>5, <3>1
    <3>2. CASE slot # s
      BY <2>4, <3>2 DEF Owned
    <3> QED BY <3>1, <3>2
  <2> QED BY <2>6 DEF Owned
<1>4. CASE popredir_done
  <2>1. redirlist' = SubSeq(redirlist, 1, n - 1) /\ fds' = fds /\ fd = Named /\ ~Popping'
    BY <1>4 DEF popredir_done, Popping
  <2>2. Len(redirlist') = n - 1 /\ \A i \in 1 .. n - 1 : redirlist'[i] = redirlist[i]
    BY <1>0, <2>1, FrontFacts DEF Typed
  <2>3. \A i, f, slot : ~Holds(n, f, slot)
    BY <1>0, <2>1, Numbers DEF Holds
  <2>4. ASSUME NEW i, NEW f, NEW slot \in Slots
        PROVE  Holds(i, f, slot)' <=> Holds(i, f, slot)
    <3>1. CASE i = n
      BY <1>0, <2>2, <2>3, <3>1 DEF Holds
    <3>2. CASE i # n
      <4>1. i \in 1 .. n <=> i \in 1 .. n - 1
        BY <1>0, <3>2
      <4> QED BY <2>1, <2>2, <3>2, <4>1 DEF Holds
    <3> QED BY <3>1, <3>2
  <2> QED BY <2>1, <2>4, OwnedSame
<1> QED BY <1>1, <1>2, <1>3, <1>4 DEF popredir

LEMMA StepOwned ==
  ASSUME ~PopInterrupts, RInv, [Next]_vars
  PROVE  Owned'
<1> USE DEF RInv
<1>1. CASE \E k \in Kinds : redirect(k)
  BY <1>1, RedirectOwned
<1>2. CASE \E f \in Fds : save(f)
  BY <1>2, SaveOwned
<1>3. CASE clearredir
  BY <1>3, ClearOwned
<1>4. CASE popredir
  BY <1>4, PopOwned
<1>5. CASE exec \/ OutOfDescriptors \/ openredirect \/ Redirected \/ Complete \/ Fails
           \/ reset \/ onint
  <2>1. redirlist' = redirlist
    BY <1>5 DEF exec, OutOfDescriptors, openredirect, openredirect_file, openredirect_dup,
       openredirect_close, CannotOpen, Opened, Redirected, Complete, Fails, error, reset, onint
  <2>2. ~Popping /\ (~Popping' \/ fd' = 0)
    BY <1>5 DEF exec, OutOfDescriptors, openredirect, openredirect_file, openredirect_dup,
       openredirect_close, CannotOpen, Opened, Opening, Redirected, Complete, Fails, error,
       reset, onint, Popping, Renamable
  <2>3. fds' = fds \/ \E d : fd \in Fds /\ fds' = [fds EXCEPT ![fd] = d]
    BY <1>5 DEF exec, OutOfDescriptors, openredirect, openredirect_file, openredirect_dup,
       openredirect_close, CannotOpen, Opening, Redirected, Complete, Fails, reset, onint, Control
  <2>4. \A slot \in Slots : fds'[slot] = fds[slot]
    BY <2>3, Numbers DEF Typed
  <2> QED BY <2>1, <2>2, <2>4, HoldsSame, OwnedSame
<1>6. CASE UNCHANGED vars
  <2>1. \A i, f, slot : Holds(i, f, slot)' <=> Holds(i, f, slot)
    BY <1>6 DEF vars, Holds, Popping
  <2> QED BY <1>6, <2>1, OwnedSame DEF vars
<1> QED BY <1>1, <1>2, <1>3, <1>4, <1>5, <1>6 DEF Next

(* Redirecting, restoring and abandoning commands keep each copy of a       *)
(* descriptor in the hands of the one frame that will restore from it.      *)
THEOREM Invariance ==
  ASSUME ~PopInterrupts PROVE Spec => []RInv
<1>1. Init => RInv
  BY InitTyped, InitOwned DEF RInv
<1>2. RInv /\ [Next]_vars => RInv'
  BY StepTyped, StepControl, StepOwned DEF RInv
<1> QED BY <1>1, <1>2, PTL DEF Spec

(* No frame is ever restored from a descriptor that is closed, wherever    *)
(* SIGINT or an error strikes outside popredir.                            *)
THEOREM SavedStayOpen ==
  ASSUME ~PopInterrupts PROVE Spec => []SavedAlive
<1>1. RInv => SavedAlive
  BY FrameFacts DEF RInv, Owned, SavedAlive, Pending, Holds
<1> QED BY <1>1, Invariance, PTL

(* redirect and popredir leave no copy of a descriptor behind, no two      *)
(* frames share one, and a program that is executed inherits none.         *)
THEOREM NothingLeaks ==
  ASSUME ~PopInterrupts PROVE Spec => []NoLeak
<1>1. ASSUME RInv, NEW slot \in Slots, ~Free(slot)
      PROVE  Cardinality({c \in (DOMAIN redirlist) \X Fds :
               Pending(c[1], c[2]) /\ redirlist[c[1]].renamed[c[2]] = slot}) = 1
  <2> DEFINE C == {c \in (DOMAIN redirlist) \X Fds :
                     Pending(c[1], c[2]) /\ redirlist[c[1]].renamed[c[2]] = slot}
  <2>1. \A c : c \in C <=> c \in (DOMAIN redirlist) \X Fds /\ Holds(c[1], c[2], slot)
    BY <1>1, FrameFacts DEF RInv, Pending, Holds
  <2>2. PICK i, f : Holds(i, f, slot)
    BY <1>1 DEF RInv, Owned
  <2>3. \A j, g : Holds(j, g, slot) => j = i /\ g = f
    BY <1>1, <2>2 DEF RInv, Owned
  <2>4. <<i, f>> \in (DOMAIN redirlist) \X Fds
    BY <1>1, <2>2, FrameFacts DEF RInv, Holds
  <2> HIDE DEF C
  <2>5. C = {<<i, f>>}
    BY <2>1, <2>2, <2>3, <2>4
  <2>6. Cardinality(C) = 1
    BY <2>5, FS_Singleton
  <2> QED BY <2>6 DEF C
<1>2. ASSUME ~PopInterrupts, RInv PROVE NoLeak
  BY <1>1, <1>2 DEF NoLeak
<1> QED BY <1>2, Invariance, PTL

(* Every variable keeps to its type; what is saved is saved above the      *)
(* descriptors a command can name.                                         *)
THEOREM TypeCorrect ==
  ASSUME ~PopInterrupts PROVE Spec => []TypeOK
<1> DEFINE Flags == push \in BOOLEAN /\ suppress \in BOOLEAN /\ resetting \in BOOLEAN
<1>1. Init => Flags
  BY Zenon DEF Init
<1>2. ASSUME Flags, [Next]_vars PROVE Flags'
  <2>1. push' = push \/ push' = TRUE \/ push' = FALSE
    BY <1>2 DEF Next, redirect, save, exec, clearredir, OutOfDescriptors, error, openredirect,
       openredirect_file, openredirect_dup, openredirect_close, CannotOpen, Opened, Redirected,
       Complete, Fails, popredir, popredir_close, popredir_copy, popredir_drop, popredir_done,
       reset, onint, vars
  <2>2. resetting' = resetting \/ resetting' = TRUE \/ resetting' = FALSE
    BY <1>2 DEF Next, redirect, save, exec, clearredir, OutOfDescriptors, error, openredirect,
       openredirect_file, openredirect_dup, openredirect_close, CannotOpen, Opened, Redirected,
       Complete, Fails, popredir, popredir_close, popredir_copy, popredir_drop, popredir_done,
       reset, onint, vars
  <2>3. suppress' = suppress \/ suppress' \in BOOLEAN
    <3>1. Complete => suppress' \in BOOLEAN
      BY Zenon DEF Complete
    <3>2. ~Complete => suppress' = suppress \/ suppress' = TRUE \/ suppress' = FALSE
      BY <1>2 DEF Next, redirect, save, exec, clearredir, OutOfDescriptors, error, openredirect,
         openredirect_file, openredirect_dup, openredirect_close, CannotOpen, Opened, Redirected,
         Fails, popredir, popredir_close, popredir_copy, popredir_drop, popredir_done,
         reset, onint, vars
    <3> QED BY <3>1, <3>2, Zenon
  <2> QED BY <1>2, <2>1, <2>2, <2>3, Zenon
<1>3. ASSUME Flags, RInv PROVE TypeOK
  <2>1. {push, suppress, resetting} \subseteq BOOLEAN
    BY <1>3, Zenon
  <2>2. /\ fds \in [All -> Files \union {Closed}] /\ redirlist \in Seq(Frame)
        /\ pc \in {"run", "redirect", "open", "pop", "popcopy", "popdrop", "reset",
                   "program", "openprogram", "exited"}
        /\ fd \in 0 .. Named /\ memory \subseteq Fds
    BY <1>3 DEF RInv, Typed, Places, Dest
  <2> QED BY <2>1, <2>2 DEF TypeOK
<1> HIDE DEF Flags
<1> QED BY <1>1, <1>2, <1>3, Invariance, PTL DEF Spec

----------------------------------------------------------------------------
(* The refinement.                                                         *)

(* What memout collects, and what is noted of the descriptors it replaces. *)
MemoryInv ==
  /\ Popping => memory = {}
  /\ memory # {} => redirlist # <<>> /\ Top.kind = "backquote"
  /\ \A f \in memory : f = 1 \/ Old(f) # EMPTY

(* Commands run inside compound commands and functions only.               *)
KindInv ==
  /\ \A i \in 1 .. Len(redirlist) - 1 : redirlist[i].kind \in {"compound", "function"}
  /\ ~push /\ pc \in {"redirect", "open", "program", "openprogram"} =>
       \A i \in 1 .. Len(redirlist) : redirlist[i].kind # "backquote"

(* The descriptor being opened leads nowhere, and is saved if it is to be; *)
(* the one being restored has been copied when its copy is closed.         *)
OpenInv ==
  /\ pc \in {"open", "openprogram"} => fd \notin memory
  /\ push /\ pc = "open" => Old(fd) # EMPTY
  /\ pc = "popdrop" => fds[fd] = fds[Old(fd)]

MInv == MemoryInv /\ KindInv /\ OpenInv

LEMMA InitMemory == Init => MInv
<1> SUFFICES ASSUME Init PROVE MInv
  OBVIOUS
<1>1. Len(redirlist) = 0
  BY EmptySeq DEF Init
<1> QED BY <1>1 DEF Init, MInv, MemoryInv, KindInv, OpenInv, Popping

LEMMA StepMemory ==
  ASSUME ~PopInterrupts, RInv, MInv, [Next]_vars
  PROVE  MInv'
<1> DEFINE n == Len(redirlist)
<1> USE DEF RInv, MInv, Popping
<1>0. n \in Nat /\ redirlist \in Seq(Frame) /\ fds \in [All -> Dest] /\ memory \subseteq Fds
  BY FrameFacts DEF Typed
<1>1. ASSUME NEW k \in Kinds, redirect(k) PROVE MInv'
  <2> DEFINE frame == [renamed |-> [f \in Fds |-> EMPTY], kind |-> k]
  <2>1. frame \in Frame /\ frame.kind = k
    BY DEF Frame
  <2> HIDE DEF frame
  <2>2. redirlist' = Append(redirlist, frame) /\ pc' = "redirect" /\ push'
        /\ memory' = IF k = "backquote" THEN {1} ELSE {}
    BY <1>1 DEF redirect, frame
  <2>3. /\ Len(redirlist') = n + 1
        /\ \A i \in 1 .. n : redirlist'[i] = redirlist[i]
        /\ redirlist'[n + 1] = frame
    BY <1>0, <2>1, <2>2, AppendProperties
  <2>4. \A i \in 1 .. n : redirlist[i].kind \in {"compound", "function"}
    <3>1. redirlist # <<>> => redirlist[n].kind \in {"compound", "function"}
      BY <1>1 DEF redirect, Evaluates, Top
    <3>2. \A i \in 1 .. n : redirlist # <<>> /\ (i = n \/ i \in 1 .. n - 1)
      BY <1>0, EmptySeq
    <3> QED BY <3>1, <3>2 DEF KindInv
  <2>5. KindInv'
    BY <1>0, <2>2, <2>3, <2>4 DEF KindInv
  <2>6. MemoryInv'
    BY <1>0, <2>1, <2>2, <2>3, EmptySeq DEF MemoryInv, Top
  <2> QED BY <2>2, <2>5, <2>6 DEF OpenInv
<1>2. ASSUME NEW f \in Fds, save(f) PROVE MInv'
  <2>1. /\ pc \in {"redirect", "program"} /\ fd' = f /\ memory' = memory \ {f} /\ push' = push
        /\ pc' = IF pc = "program" THEN "openprogram" ELSE "open"
    BY <1>2 DEF save, Renamable
  <2>2. push => redirlist # <<>> /\ pc = "redirect"
    BY <2>1 DEF Control
  <2>3. /\ Len(redirlist') = n
        /\ \A i \in 1 .. n : redirlist'[i].kind = redirlist[i].kind
        /\ \A g \in Fds : redirlist # <<>> /\ Old(g) # EMPTY => Old(g)' # EMPTY
        /\ push => Old(f)' # EMPTY
    <3>1. CASE redirlist' = redirlist /\ ~MustSave(f)
      <4>1. \A g : Old(g)' = Old(g)
        BY <3>1 DEF Old, Top
      <4> QED BY <3>1, <4>1 DEF MustSave
    <3>2. ASSUME MustSave(f), NEW v \in {CLOSED} \union Slots, Saved(f, v)
          PROVE  <2>3!:
      <4>1. n \in 1 .. n /\ redirlist[n].renamed \in [Fds -> {EMPTY, CLOSED} \union Slots]
        BY <2>2, <3>2, FrameFacts DEF MustSave
      <4>2. /\ Len(redirlist') = n
            /\ \A i \in 1 .. n :
                 /\ redirlist'[i].kind = redirlist[i].kind
                 /\ redirlist'[i].renamed =
                      IF i = n THEN [redirlist[i].renamed EXCEPT ![f] = v] ELSE redirlist[i].renamed
        BY <2>2, <3>2, SavedTyped DEF Saved, MustSave
      <4>3. redirlist'[n].renamed = [redirlist[n].renamed EXCEPT ![f] = v]
        BY <4>1, <4>2
      <4>4. v # EMPTY
        BY Numbers
      <4>5. \A g \in Fds : redirlist'[n].renamed[g] = IF g = f THEN v ELSE redirlist[n].renamed[g]
        BY <4>1, <4>3
      <4> QED BY <4>2, <4>4, <4>5 DEF Old, Top
    <3>3. CASE MustSave(f)
      <4>1. \E v \in {CLOSED} \union Slots : Saved(f, v)
        BY <1>2, <3>3 DEF save, copyfd, Base, Slots
      <4> QED BY <3>2, <3>3, <4>1
    <3>4. CASE ~MustSave(f)
      BY <1>2, <3>1, <3>4 DEF save
    <3> QED BY <3>3, <3>4
  <2>4. KindInv'
    BY <1>0, <2>1, <2>3 DEF KindInv
  <2>5. MemoryInv'
    <3>1. memory' # {} => redirlist # <<>> /\ n \in 1 .. n
      BY <2>1, FrameFacts DEF MemoryInv
    <3>2. redirlist # <<>> => redirlist' # <<>>
      BY <1>0, <2>3, EmptySeq
    <3> QED BY <1>0, <2>1, <2>3, <3>1, <3>2 DEF MemoryInv, Top
  <2> QED BY <2>1, <2>3, <2>4, <2>5 DEF OpenInv
<1>3. ASSUME exec PROVE MInv'
  <2>1. redirlist' = redirlist /\ memory' = {} /\ pc' = "redirect"
    BY <1>3 DEF exec
  <2>2. \A i \in 1 .. n : redirlist[i].kind \in {"compound", "function"}
    <3>1. redirlist # <<>> => redirlist[n].kind \in {"compound", "function"}
      BY <1>3 DEF exec, Evaluates, Top
    <3>2. \A i \in 1 .. n : redirlist # <<>> /\ (i = n \/ i \in 1 .. n - 1)
      BY <1>0, EmptySeq
    <3> QED BY <3>1, <3>2 DEF KindInv
  <2> QED BY <1>0, <2>1, <2>2 DEF MemoryInv, KindInv, OpenInv
<1>4. ASSUME clearredir PROVE MInv'
  <2>1. redirlist' = Cleared /\ memory' = {} /\ pc' = "program" /\ ~push'
    BY <1>4 DEF clearredir
  <2>2. \A i \in 1 .. n : redirlist[i].kind \in {"compound", "function"}
    <3>1. redirlist # <<>> => redirlist[n].kind \in {"compound", "function"}
      BY <1>4 DEF clearredir, Evaluates, Top
    <3>2. \A i \in 1 .. n : redirlist # <<>> /\ (i = n \/ i \in 1 .. n - 1)
      BY <1>0, EmptySeq
    <3> QED BY <3>1, <3>2 DEF KindInv
  <2>3. Len(redirlist') = n /\ \A i \in 1 .. n : redirlist'[i].kind = redirlist[i].kind
    BY <2>1, ClearedTyped
  <2> QED BY <1>0, <2>1, <2>2, <2>3 DEF MemoryInv, KindInv, OpenInv
<1>5. ASSUME OutOfDescriptors \/ CannotOpen \/ Fails \/ Redirected \/ onint PROVE MInv'
  <2>1. UNCHANGED <<redirlist, memory, push>> /\ pc' \in {"exited", "reset", "run"}
    BY <1>5 DEF OutOfDescriptors, CannotOpen, Fails, Redirected, onint, error
  <2> QED BY <2>1 DEF MemoryInv, KindInv, OpenInv, Top, Old
<1>6. ASSUME openredirect, ~CannotOpen PROVE MInv'
  <2>1. /\ UNCHANGED <<redirlist, push, fd>> /\ pc \in {"open", "openprogram"}
        /\ pc' = IF pc = "open" THEN "redirect" ELSE "program"
        /\ memory' = memory \/ (memory # {} /\ memory' = memory \union {fd})
    BY <1>6 DEF openredirect, openredirect_file, openredirect_dup, openredirect_close, Opened,
       Opening
  <2>2. memory # {} => push /\ pc = "open"
    <3>1. ASSUME memory # {}, ~push PROVE FALSE
      <4>1. n \in 1 .. n /\ redirlist[n].kind = "backquote"
        BY <3>1, FrameFacts DEF MemoryInv, Top
      <4> QED BY <2>1, <3>1, <4>1 DEF KindInv
    <3> QED BY <2>1, <3>1 DEF Control
  <2>3. memory # {} => Old(fd) # EMPTY
    BY <2>2 DEF OpenInv
  <2> QED BY <2>1, <2>3 DEF MemoryInv, KindInv, OpenInv, Top, Old
<1>7. ASSUME Complete \/ reset PROVE MInv'
  <2>1. UNCHANGED <<redirlist, push>> /\ memory' = {} /\ pc' \in {"run", "pop"}
    BY <1>7 DEF Complete, reset
  <2> QED BY <2>1 DEF MemoryInv, KindInv, OpenInv
<1>8. ASSUME popredir_close PROVE MInv'
  <2>1. UNCHANGED <<redirlist, push, memory>> /\ pc = "pop" /\ pc' \in {"pop", "popcopy"}
    BY <1>8 DEF popredir_close
  <2> QED BY <2>1 DEF MemoryInv, KindInv, OpenInv
<1>9. ASSUME popredir_copy PROVE MInv'
  <2>1. /\ UNCHANGED <<redirlist, push, memory, fd>> /\ pc = "popcopy" /\ pc' = "popdrop"
        /\ fds' = [fds EXCEPT ![fd] = fds[Old(fd)]]
        /\ fd \in Fds /\ Old(fd) \in Slots
    BY <1>9 DEF popredir_copy, Control
  <2>2. fds'[fd] = fds[Old(fd)] /\ fds'[Old(fd)] = fds[Old(fd)] /\ Old(fd)' = Old(fd)
    BY <1>0, <2>1, Numbers DEF Old, Top
  <2>3. fds'[fd'] = fds'[Old(fd)']
    BY <2>1, <2>2
  <2> QED BY <2>1, <2>3 DEF MemoryInv, KindInv, OpenInv
<1>10. ASSUME popredir_drop PROVE MInv'
  <2>1. UNCHANGED <<redirlist, push, memory>> /\ pc = "popdrop" /\ pc' = "pop"
    BY <1>10 DEF popredir_drop
  <2> QED BY <2>1 DEF MemoryInv, KindInv, OpenInv
<1>11. ASSUME popredir_done PROVE MInv'
  <2>1. /\ redirlist' = SubSeq(redirlist, 1, n - 1) /\ UNCHANGED <<push, memory>>
        /\ pc = "pop" /\ pc' \in {"reset", "run"} /\ redirlist # <<>> /\ n \in 1 .. n
    BY <1>11, FrameFacts DEF popredir_done, Control
  <2>2. Len(redirlist') = n - 1 /\ \A i \in 1 .. n - 1 : redirlist'[i] = redirlist[i]
    BY <1>0, <2>1, FrontFacts
  <2>3. memory' = {}
    BY <2>1 DEF MemoryInv
  <2> QED BY <1>0, <2>1, <2>2, <2>3 DEF MemoryInv, KindInv, OpenInv
<1>12. ASSUME UNCHANGED vars PROVE MInv'
  BY <1>12 DEF vars, MemoryInv, KindInv, OpenInv, Top, Old
<1> QED BY <1>1, <1>2, <1>3, <1>4, <1>5, <1>6, <1>7, <1>8, <1>9, <1>10, <1>11, <1>12
    DEF Next, popredir, openredirect

(* A sequence is known by its length and elements.                         *)
LEMMA FunSeq ==
  ASSUME NEW n \in Nat, NEW s, s = [i \in 1 .. n |-> s[i]]
  PROVE  Len(s) = n /\ \E S : s \in Seq(S)
<1> DEFINE S == {s[i] : i \in 1 .. n}
<1>1. s \in [1 .. n -> S]
  OBVIOUS
<1>2. s \in Seq(S) /\ DOMAIN s = 1 .. n
  BY <1>1, SeqDef
<1> QED BY <1>2, LenProperties

LEMMA AppendIs ==
  ASSUME NEW n \in Nat, NEW s, s = [i \in 1 .. n |-> s[i]], NEW e,
         NEW t, t = [i \in 1 .. n + 1 |-> t[i]],
         \A i \in 1 .. n : t[i] = s[i], t[n + 1] = e
  PROVE  t = Append(s, e)
<1> DEFINE S == {s[i] : i \in 1 .. n} \union {e}
<1>0. n + 1 \in Nat /\ \A i \in 1 .. n + 1 : i = n + 1 \/ i \in 1 .. n
  OBVIOUS
<1>1. s \in [1 .. n -> S] /\ t \in [1 .. n + 1 -> S]
  <2>1. \A i \in 1 .. n + 1 : t[i] \in S
    BY <1>0
  <2> QED BY <2>1
<1> HIDE DEF S
<1>2. s \in Seq(S) /\ DOMAIN s = 1 .. n /\ t \in Seq(S) /\ DOMAIN t = 1 .. n + 1
  BY <1>0, <1>1, SeqDef
<1>3. Len(s) = n /\ Len(t) = n + 1 /\ e \in S
  BY <1>0, <1>2, LenProperties DEF S
<1>4. /\ Append(s, e) \in Seq(S) /\ Len(Append(s, e)) = n + 1
      /\ \A i \in 1 .. n : Append(s, e)[i] = s[i]
      /\ Append(s, e)[n + 1] = e
  BY <1>2, <1>3, AppendProperties
<1>5. \A i \in 1 .. n + 1 : t[i] = Append(s, e)[i]
  BY <1>0, <1>4
<1> QED BY <1>2, <1>3, <1>4, <1>5, SeqEqual

LEMMA FrontIs ==
  ASSUME NEW n \in Nat, n >= 1, NEW s, s = [i \in 1 .. n |-> s[i]],
         NEW t, t = [i \in 1 .. n - 1 |-> t[i]], \A i \in 1 .. n - 1 : t[i] = s[i]
  PROVE  t = SubSeq(s, 1, n - 1)
<1> DEFINE S == {s[i] : i \in 1 .. n}
<1>0. n - 1 \in Nat
  OBVIOUS
<1>1. s \in [1 .. n -> S] /\ t \in [1 .. n - 1 -> S]
  OBVIOUS
<1>2. s \in Seq(S) /\ DOMAIN s = 1 .. n /\ t \in Seq(S) /\ DOMAIN t = 1 .. n - 1
  BY <1>0, <1>1, SeqDef
<1>3. Len(s) = n /\ Len(t) = n - 1
  BY <1>0, <1>2, LenProperties
<1> HIDE DEF S
<1> DEFINE q == SubSeq(s, 1, Len(s) - 1)
<1>4. q \in Seq(S) /\ Len(q) = Len(s) - 1 /\ \A i \in 1 .. Len(s) - 1 : q[i] = s[i]
  <2>1. s \in Seq(S) /\ Len(s) \in 1 .. Len(s)
    BY <1>2, <1>3
  <2> QED BY <2>1, FrontFacts
<1>5. q = SubSeq(s, 1, n - 1)
  BY <1>3
<1> HIDE DEF q
<1>6. t = q
  BY <1>2, <1>3, <1>4, SeqEqual
<1> QED BY <1>5, <1>6

(* The abstract state, as a function of the descriptors.                   *)
dest  == [f \in Fds |-> Visible(f)]
saved == [i \in DOMAIN UnderWay |-> Before(UnderWay[i])]

Noted(frame) == {g \in Fds : frame.renamed[g] # EMPTY}
                  \union (IF frame.kind = "backquote" THEN {1} ELSE {})
Was(table, frame, f) ==
  CASE frame.renamed[f] = EMPTY  -> table[f]
    [] frame.renamed[f] = CLOSED -> Closed
    [] OTHER                     -> table[frame.renamed[f]]
Notes(table, frame) == [f \in Noted(frame) |-> Was(table, frame, f)]

LEMMA BeforeNotes == \A frame : Before(frame) = Notes(fds, frame)
BY DEF Before, Notes, Noted, Was

LEMMA NotesSame ==
  ASSUME NEW p, NEW q, NEW r \in Frame,
         \A f \in Fds : r.renamed[f] \in Slots => p[r.renamed[f]] = q[r.renamed[f]],
         r.kind = "backquote" /\ r.renamed[1] = EMPTY => p[1] = q[1]
  PROVE  Notes(p, r) = Notes(q, r)
<1>1. ASSUME NEW f \in Noted(r) PROVE Was(p, r, f) = Was(q, r, f)
  <2>1. f \in Fds /\ (r.renamed[f] = EMPTY => r.kind = "backquote" /\ f = 1)
    BY <1>1, Numbers DEF Noted, Fds
  <2>2. r.renamed[f] \in {EMPTY, CLOSED} \union Slots
    BY <2>1 DEF Frame
  <2>3. CASE r.renamed[f] = EMPTY
    BY <2>1, <2>3 DEF Was
  <2>4. CASE r.renamed[f] = CLOSED
    BY <2>4, Numbers DEF Was
  <2>5. CASE r.renamed[f] \in Slots
    BY <2>1, <2>5, Numbers DEF Was
  <2> QED BY <2>2, <2>3, <2>4, <2>5
<1> QED BY <1>1 DEF Notes

(* The frames of the commands under way.                                   *)
Count == IF Popping THEN Len(redirlist) - 1 ELSE Len(redirlist)

SavedOK ==
  /\ Count \in Nat
  /\ saved = [i \in 1 .. Count |-> Notes(fds, redirlist[i])]
  /\ \A i \in 1 .. Count : i \in 1 .. Len(redirlist) /\ redirlist[i] \in Frame

LEMMA SavedIs == Typed /\ Control => SavedOK
<1> SUFFICES ASSUME Typed, Control PROVE SavedOK
  OBVIOUS
<1> USE DEF SavedOK
<1>1. Len(redirlist) \in Nat /\ DOMAIN redirlist = 1 .. Len(redirlist)
      /\ \A i \in 1 .. Len(redirlist) : redirlist[i] \in Frame
  BY FrameFacts
<1>2. CASE ~Popping
  BY <1>1, <1>2, BeforeNotes DEF saved, UnderWay, Count
<1>3. CASE Popping
  <2> DEFINE m == Len(redirlist) - 1
             q == SubSeq(redirlist, 1, m)
  <2>1. m \in Nat
    BY <1>1, <1>3, FrameFacts DEF Control
  <2>2. q \in Seq(Frame) /\ Len(q) = m /\ \A i \in 1 .. m : q[i] = redirlist[i]
    BY <1>1, <1>3, FrameFacts, FrontFacts DEF Control, Typed
  <2>3. UnderWay = q /\ Count = m
    BY <1>3 DEF UnderWay, Count
  <2> HIDE DEF m, q
  <2>4. DOMAIN q = 1 .. m
    BY <2>2, LenProperties
  <2>5. saved = [i \in 1 .. m |-> Notes(fds, redirlist[i])]
    BY <2>2, <2>3, <2>4, BeforeNotes DEF saved
  <2>6. \A i \in 1 .. m : i \in 1 .. Len(redirlist)
    BY <1>1, <2>1 DEF m
  <2> QED BY <1>1, <2>1, <2>3, <2>5, <2>6
<1> QED BY <1>2, <1>3

LEMMA SavedIsNext == Typed' /\ Control' => SavedOK'
BY SavedIs, PTL

(* Nothing that was noted is forgotten.                                    *)
LEMMA SavedKept ==
  ASSUME Typed, Control, Typed', Control', UNCHANGED Count,
         \A i \in 1 .. Count : Notes(fds', redirlist'[i]) = Notes(fds, redirlist[i])
  PROVE  saved' = saved
<1>1. saved = [i \in 1 .. Count |-> Notes(fds, redirlist[i])]
  BY SavedIs DEF SavedOK
<1>2. saved' = [i \in 1 .. Count' |-> Notes(fds', redirlist'[i])]
  BY SavedIsNext DEF SavedOK
<1> QED BY <1>1, <1>2

LEMMA LenSaved ==
  ASSUME Typed, Control
  PROVE  /\ Len(saved) = Count /\ DOMAIN saved = 1 .. Count
         /\ saved = [i \in 1 .. Count |-> saved[i]]
         /\ \A i \in 1 .. Count : saved[i] = Notes(fds, redirlist[i])
<1>1. Count \in Nat /\ saved = [i \in 1 .. Count |-> Notes(fds, redirlist[i])]
  BY SavedIs DEF SavedOK
<1>2. /\ DOMAIN saved = 1 .. Count
      /\ \A i \in 1 .. Count : saved[i] = Notes(fds, redirlist[i])
      /\ saved = [i \in 1 .. Count |-> saved[i]]
  BY <1>1
<1>3. Len(saved) = Count
  BY <1>1, <1>2, FunSeq
<1> QED BY <1>2, <1>3

LEMMA VisibleIs ==
  ASSUME NEW f, ~Popping
  PROVE  Visible(f) = IF f \in memory THEN Memory ELSE fds[f]
BY DEF Visible

(* Commands begin where nothing is collected.                              *)
LEMMA NothingCollected ==
  ASSUME RInv, MInv, pc = "run", Evaluates
  PROVE  /\ memory = {}
         /\ \A i \in 1 .. Len(redirlist) : redirlist[i].kind \in {"compound", "function"}
<1>1. memory = {}
  BY DEF MInv, MemoryInv, Evaluates
<1>2. \A i \in 1 .. Len(redirlist) :
        redirlist # <<>> /\ (i = Len(redirlist) \/ i \in 1 .. Len(redirlist) - 1)
  <2>1. Len(redirlist) \in Nat
    BY FrameFacts DEF RInv
  <2> QED BY <2>1, EmptySeq
<1> QED BY <1>1, <1>2 DEF Evaluates, Top, MInv, KindInv

LEMMA RedirectBegins ==
  ASSUME RInv, MInv, RInv', NEW k \in Kinds, redirect(k)
  PROVE  R!Begin(IF k = "backquote" THEN {1} ELSE {})
<1> DEFINE n == Len(redirlist)
           F == IF k = "backquote" THEN {1} ELSE {}
           frame == [renamed |-> [f \in Fds |-> EMPTY], kind |-> k]
<1>0. frame \in Frame /\ frame.kind = k /\ \A f \in Fds : frame.renamed[f] = EMPTY
  BY DEF Frame
<1>1. /\ redirlist' = Append(redirlist, frame) /\ fds' = fds /\ push' /\ memory' = F
      /\ pc = "run" /\ pc' = "redirect" /\ Evaluates /\ ~Popping /\ ~Popping'
  BY DEF redirect, Popping
<1> HIDE DEF frame
<1>2. /\ n \in Nat /\ Len(redirlist') = n + 1
      /\ \A i \in 1 .. n : redirlist'[i] = redirlist[i]
      /\ redirlist'[n + 1] = frame
  BY <1>0, <1>1, FrameFacts, AppendProperties DEF RInv, Typed
<1>3. memory = {} /\ 1 \in Fds
  BY <1>1, NothingCollected, Numbers DEF Fds
<1>4. \A f \in Fds : dest[f] = fds[f] /\ Visible(f) = fds[f]
  BY <1>1, <1>3, VisibleIs DEF dest
<1>5. saved = [i \in 1 .. n |-> Notes(fds, redirlist[i])]
  BY <1>1, SavedIs DEF RInv, SavedOK, Count
<1>6. saved' = [i \in 1 .. n + 1 |-> Notes(fds, redirlist'[i])]
  BY <1>1, <1>2, SavedIsNext DEF RInv, SavedOK, Count
<1>7. Notes(fds, frame) = [f \in F |-> dest[f]]
  <2>1. Noted(frame) = F
    BY <1>0 DEF Noted
  <2>2. \A f \in F : f \in Fds /\ Was(fds, frame, f) = fds[f]
    BY <1>0, <1>3, Numbers DEF Was
  <2> QED BY <1>4, <2>1, <2>2 DEF Notes
<1>8. saved' = Append(saved, [f \in F |-> dest[f]])
  <2>1. /\ saved = [i \in 1 .. n |-> saved[i]] /\ saved' = [i \in 1 .. n + 1 |-> saved'[i]]
        /\ saved'[n + 1] = [f \in F |-> dest[f]]
    BY <1>2, <1>5, <1>6, <1>7
  <2>2. \A i \in 1 .. n : saved'[i] = saved[i]
    BY <1>2, <1>5, <1>6
  <2> HIDE DEF n, F
  <2> QED BY <1>2, <2>1, <2>2, AppendIs
<1>9. \A f \in Fds : Visible(f)' = IF f \in F THEN Memory ELSE dest[f]
  BY <1>1, <1>4 DEF Visible
<1>10. dest' = [f \in Fds |-> IF f \in F THEN Memory ELSE dest[f]]
  BY <1>9 DEF dest
<1>11. (~push)' = FALSE
  BY <1>1
<1> QED BY <1>8, <1>10, <1>11 DEF R!Begin, dest, saved

LEMMA ExecMaps ==
  ASSUME RInv, MInv, RInv', exec
  PROVE  R!Exec
<1>1. memory = {} /\ memory' = {}
  BY NothingCollected DEF exec
<1>2. UNCHANGED <<fds, redirlist>> /\ ~push' /\ ~Popping /\ ~Popping'
  BY DEF exec, Popping
<1>3. \A f \in Fds : Visible(f)' = Visible(f)
  BY <1>1, <1>2 DEF Visible
<1>4. dest' = dest
  BY <1>3 DEF dest
<1>5. saved' = saved
  BY <1>2, SavedKept DEF RInv, Count
<1>6. (~push)' = TRUE
  BY <1>2
<1> QED BY <1>4, <1>5, <1>6 DEF R!Exec, dest, saved

LEMMA ClearDiscards ==
  ASSUME RInv, MInv, RInv', clearredir
  PROVE  R!Discard
<1> DEFINE n == Len(redirlist)
<1>1. /\ redirlist' = Cleared /\ memory' = {} /\ ~push' /\ ~Popping /\ ~Popping'
      /\ pc = "run" /\ Evaluates
      /\ fds' = [f \in All |->
           IF \E i \in DOMAIN redirlist, g \in Fds : redirlist[i].renamed[g] = f
           THEN Closed ELSE fds[f]]
  BY DEF clearredir, Popping
<1>2. memory = {} /\ \A i \in 1 .. n : redirlist[i].kind \in {"compound", "function"}
  BY <1>1, NothingCollected
<1>3. ASSUME NEW f \in Fds PROVE fds'[f] = fds[f]
  <2>1. \A i \in DOMAIN redirlist, g \in Fds :
          redirlist[i].renamed[g] \in {EMPTY, CLOSED} \union Slots
    BY FrameFacts DEF RInv
  <2>2. f \in All /\ \A v \in {EMPTY, CLOSED} \union Slots : v # f
    BY Numbers
  <2> QED BY <1>1, <2>1, <2>2
<1>4. \A f \in Fds : Visible(f)' = Visible(f)
  BY <1>1, <1>2, <1>3 DEF Visible
<1>5. dest' = dest
  BY <1>4 DEF dest
<1>6. /\ n \in Nat /\ Len(redirlist') = n
      /\ \A i \in 1 .. n : redirlist'[i].kind = redirlist[i].kind
                           /\ redirlist'[i].renamed = [f \in Fds |-> EMPTY]
  BY <1>1, FrameFacts, ClearedTyped DEF RInv
<1>7. saved = [i \in 1 .. n |-> Notes(fds, redirlist[i])]
  BY <1>1, SavedIs DEF RInv, SavedOK, Count
<1>8. saved' = [i \in 1 .. n |-> Notes(fds', redirlist'[i])]
  BY <1>1, <1>6, SavedIsNext DEF RInv, SavedOK, Count
<1>9. ASSUME NEW i \in 1 .. n PROVE Notes(fds', redirlist'[i]) = <<>>
  <2>1. Noted(redirlist'[i]) = {}
    BY <1>2, <1>6 DEF Noted
  <2>2. DOMAIN Notes(fds', redirlist'[i]) = {}
    BY <2>1 DEF Notes
  <2>3. Notes(fds', redirlist'[i]) = [f \in {} |-> Was(fds', redirlist'[i], f)]
    BY <2>1 DEF Notes
  <2> QED BY <2>3
<1>10. saved' = [i \in DOMAIN saved |-> <<>>]
  BY <1>7, <1>8, <1>9
<1>11. (~push)' = TRUE
  BY <1>1
<1> QED BY <1>5, <1>10, <1>11 DEF R!Discard, dest, saved

(* Redirecting f is Redirect, if f is noted on the first occasion.         *)
LEMMA RedirectMaps ==
  ASSUME NEW f \in Fds, NEW d, push' = push,
         \A g \in Fds : Visible(g)' = IF g = f THEN d ELSE Visible(g),
         ~push => saved' = saved,
         push => /\ saved # <<>>
                 /\ saved' = [saved EXCEPT ![Len(saved)] =
                      [g \in DOMAIN saved[Len(saved)] \union {f} |->
                         IF g \in DOMAIN saved[Len(saved)] THEN saved[Len(saved)][g] ELSE dest[f]]]
  PROVE  R!Redirect(f, d)
<1>1. dest' = [dest EXCEPT ![f] = d]
  BY DEF dest
<1>2. CASE push
  BY <1>1, <1>2 DEF R!Redirect, R!Noting, R!Innermost, dest, saved
<1>3. CASE ~push
  BY <1>1, <1>3 DEF R!Redirect, dest, saved
<1> QED BY <1>2, <1>3

(* What is noted already is not noted again.                               *)
LEMMA NotedAlready ==
  ASSUME RInv, ~Popping, redirlist # <<>>, NEW f \in Fds, Old(f) # EMPTY, saved' = saved
  PROVE  /\ saved # <<>>
         /\ saved' = [saved EXCEPT ![Len(saved)] =
              [g \in DOMAIN saved[Len(saved)] \union {f} |->
                 IF g \in DOMAIN saved[Len(saved)] THEN saved[Len(saved)][g] ELSE dest[f]]]
<1> DEFINE n == Len(redirlist)
<1>1. n \in 1 .. n /\ Len(saved) = n /\ saved = [i \in 1 .. n |-> saved[i]]
      /\ saved[n] = Notes(fds, redirlist[n])
  BY FrameFacts, LenSaved DEF RInv, Count
<1>2. f \in DOMAIN saved[n]
  BY <1>1 DEF Notes, Noted, Old, Top
<1>3. saved[n] = [g \in DOMAIN saved[n] |-> saved[n][g]]
  BY <1>1 DEF Notes
<1>4. [g \in DOMAIN saved[n] \union {f} |-> IF g \in DOMAIN saved[n] THEN saved[n][g] ELSE dest[f]]
        = saved[n]
  <2>1. DOMAIN saved[n] \union {f} = DOMAIN saved[n]
    BY <1>2
  <2> HIDE DEF n
  <2> QED BY <1>3, <2>1
<1>5. [saved EXCEPT ![n] = saved[n]] = saved
  BY <1>1
<1>6. saved # <<>>
  BY <1>1, EmptySeq
<1> QED BY <1>1, <1>4, <1>5, <1>6

(* Changing a descriptor that is noted, or that nobody will restore,       *)
(* changes nothing that is noted.                                          *)
LEMMA TouchKeepsNotes ==
  ASSUME RInv, MInv, RInv', NEW f \in Fds,
         pc \in {"redirect", "open", "program", "openprogram"}, ~Popping',
         push => redirlist # <<>> /\ Old(f) # EMPTY,
         redirlist' = redirlist, \A g \in All \ {f} : fds'[g] = fds[g]
  PROVE  saved' = saved
<1> DEFINE n == Len(redirlist)
<1>0. ~Popping /\ n \in Nat /\ \A i \in 1 .. n : redirlist[i] \in Frame
  BY FrameFacts DEF Popping, RInv
<1>1. ASSUME NEW i \in 1 .. n PROVE Notes(fds', redirlist[i]) = Notes(fds, redirlist[i])
  <2>1. \A g \in Fds : redirlist[i].renamed[g] \in Slots =>
          fds'[redirlist[i].renamed[g]] = fds[redirlist[i].renamed[g]]
    BY Numbers
  <2>2. redirlist[i].kind = "backquote" /\ redirlist[i].renamed[1] = EMPTY => fds'[1] = fds[1]
    <3>1. CASE f # 1
      <4>1. 1 \in All
        BY Numbers DEF All
      <4> QED BY <3>1, <4>1
    <3>2. CASE f = 1
      <4>1. redirlist[i].kind = "backquote" => push
        BY DEF MInv, KindInv
      <4>2. redirlist[i].kind = "backquote" => i = n
        <5>1. i = n \/ i \in 1 .. n - 1
          BY <1>0
        <5> QED BY <5>1 DEF MInv, KindInv
      <4> QED BY <3>2, <4>1, <4>2 DEF Old, Top
    <3> QED BY <3>1, <3>2
  <2> HIDE DEF n
  <2> QED BY <1>0, <2>1, <2>2, NotesSame
<1> QED BY <1>0, <1>1, SavedKept DEF RInv, Count

LEMMA OpenMaps ==
  ASSUME RInv, MInv, RInv', Opening, Opened, NEW d,
         \A g \in All \ {fd} : fds'[g] = fds[g],
         \A g \in Fds \ {fd} : g \in memory' <=> g \in memory, Visible(fd)' = d
  PROVE  \E f \in Fds : f = fd /\ R!Redirect(f, d)
<1>0. PICK f \in Fds : f = fd
  BY DEF RInv, Control, Opening
<1>1. /\ UNCHANGED <<redirlist, fd, push>> /\ ~Popping /\ ~Popping'
      /\ pc \in {"open", "openprogram"} /\ \A g : Old(g)' = Old(g)
  BY DEF Opening, Opened, Popping, Old, Top
<1>2. push => redirlist # <<>> /\ Old(f) # EMPTY
  BY <1>0, <1>1 DEF MInv, OpenInv, RInv, Control
<1>3. saved' = saved
  BY <1>0, <1>1, <1>2, TouchKeepsNotes
<1>4. ASSUME NEW g \in Fds PROVE Visible(g)' = IF g = f THEN d ELSE Visible(g)
  <2>1. CASE g = f
    <3>1. Visible(g)' = d
      BY <1>0, <1>1, <2>1 DEF Visible
    <3> QED BY <2>1, <3>1
  <2>2. CASE g # f
    <3>1. fds'[g] = fds[g] /\ (g \in memory' <=> g \in memory)
      BY <1>0, <2>2, Numbers
    <3> QED BY <1>1, <2>2, <3>1 DEF Visible
  <2> QED BY <2>1, <2>2
<1>5. R!Redirect(f, d)
  BY <1>1, <1>2, <1>3, <1>4, RedirectMaps, NotedAlready
<1> QED BY <1>0, <1>5

(* openredirect redirects the descriptor to what it was asked to.          *)
LEMMA OpenRedirects ==
  ASSUME RInv, MInv, RInv', openredirect
  PROVE  R!Next \/ UNCHANGED R!vars
<1>0. fds \in [All -> Dest] /\ memory \subseteq Fds
  BY DEF RInv, Typed
<1>1. ASSUME NEW file \in Files, openredirect_file(file) PROVE R!Next
  <2>1. /\ Opening /\ Opened /\ fds' = [fds EXCEPT ![fd] = file] /\ memory' = memory
        /\ fd \in Fds /\ fd' = fd /\ fd \notin memory /\ ~Popping'
    BY <1>1 DEF openredirect_file, Opening, Opened, RInv, Control, MInv, OpenInv, Popping
  <2>2. Visible(fd)' = file
    BY <1>0, <2>1, Numbers DEF Visible
  <2>3. \A g \in All \ {fd} : fds'[g] = fds[g]
    BY <1>0, <2>1
  <2>4. \E f \in Fds : R!Redirect(f, file)
    BY <2>1, <2>2, <2>3, OpenMaps
  <2> QED BY <2>4 DEF R!Next
<1>2. ASSUME NEW g \in Fds, openredirect_dup(g) PROVE R!Next
  <2>1. /\ Opening /\ Opened /\ fd \in Fds /\ fd' = fd /\ fd \notin memory /\ ~Popping' /\ ~Popping
        /\ \/ g \in memory /\ memory' = memory \union {fd} /\ fds' = fds
           \/ g \notin memory /\ memory' = memory /\ fds' = [fds EXCEPT ![fd] = fds[g]]
    BY <1>2 DEF openredirect_dup, Opening, Opened, RInv, Control, MInv, OpenInv, Popping
  <2>2. PICK d : d = Visible(g)
    OBVIOUS
  <2>3. Visible(fd)' = d
    BY <1>0, <2>1, <2>2, Numbers DEF Visible
  <2>4. \A h \in All \ {fd} : fds'[h] = fds[h]
    BY <1>0, <2>1
  <2>5. \A h \in Fds \ {fd} : h \in memory' <=> h \in memory
    BY <2>1
  <2>6. PICK f \in Fds : R!Redirect(f, d)
    BY <2>1, <2>3, <2>4, <2>5, OpenMaps
  <2>7. d = dest[g]
    BY <2>2 DEF dest
  <2>8. R!Redirect(f, dest[g])
    BY <2>6, <2>7
  <2> QED BY <2>8 DEF R!Next, dest
<1>3. ASSUME openredirect_close \/ CannotOpen PROVE UNCHANGED R!vars
  <2>1. UNCHANGED <<fds, redirlist, push, memory>> /\ ~Popping /\ ~Popping'
    BY <1>3 DEF openredirect_close, Opening, Opened, CannotOpen, error, Popping
  <2>2. \A f \in Fds : Visible(f)' = Visible(f)
    BY <2>1 DEF Visible
  <2>3. saved' = saved
    BY <2>1, SavedKept DEF RInv, Count
  <2>4. dest' = dest
    BY <2>2 DEF dest
  <2> QED BY <2>1, <2>3, <2>4 DEF R!vars, dest, saved
<1> QED BY <1>1, <1>2, <1>3 DEF openredirect

LEMMA NotesOf ==
  ASSUME NEW p, NEW r, NEW s, r.kind = s.kind, r.renamed = s.renamed
  PROVE  Notes(p, r) = Notes(p, s)
<1>1. Noted(r) = Noted(s)
  BY DEF Noted
<1>2. \A f : Was(p, r, f) = Was(p, s, f)
  BY DEF Was
<1> QED BY <1>1, <1>2 DEF Notes

(* Where f led is noted as the frame saves it.                             *)
LEMMA SavingNotes ==
  ASSUME RInv, MInv, RInv', NEW f \in Fds, MustSave(f), pc \in {"redirect", "program"}, ~Popping',
         NEW v \in {CLOSED} \union Slots, Saved(f, v),
         fds[f] = (IF v = CLOSED THEN Closed ELSE fds'[v]),
         \A g \in All : g # f /\ g # v => fds'[g] = fds[g],
         v \in Slots => Free(v)
  PROVE  /\ saved # <<>>
         /\ saved' = [saved EXCEPT ![Len(saved)] =
              [g \in DOMAIN saved[Len(saved)] \union {f} |->
                 IF g \in DOMAIN saved[Len(saved)] THEN saved[Len(saved)][g] ELSE dest[f]]]
<1> DEFINE n == Len(redirlist)
           note == [g \in DOMAIN saved[n] \union {f} |->
                      IF g \in DOMAIN saved[n] THEN saved[n][g] ELSE dest[f]]
<1>0. /\ redirlist # <<>> /\ n \in Nat /\ n \in 1 .. n /\ ~Popping /\ push
      /\ \A i \in 1 .. n : /\ redirlist[i] \in Frame
                           /\ redirlist[i].renamed \in [Fds -> {EMPTY, CLOSED} \union Slots]
      /\ redirlist[n].renamed[f] = EMPTY
  BY FrameFacts DEF RInv, Control, MustSave, Popping, Old, Top
<1>1. /\ Len(redirlist') = n
      /\ \A i \in 1 .. n :
           /\ redirlist'[i].kind = redirlist[i].kind
           /\ redirlist'[i].renamed = IF i = n THEN [redirlist[i].renamed EXCEPT ![f] = v]
                                               ELSE redirlist[i].renamed
  BY <1>0, SavedTyped DEF Saved, RInv
<1>2. \A i \in 1 .. n, g \in Fds : redirlist[i].renamed[g] \in Slots =>
        fds'[redirlist[i].renamed[g]] = fds[redirlist[i].renamed[g]]
  <2> SUFFICES ASSUME NEW i \in 1 .. n, NEW g \in Fds, redirlist[i].renamed[g] \in Slots
               PROVE  fds'[redirlist[i].renamed[g]] = fds[redirlist[i].renamed[g]]
    OBVIOUS
  <2>1. PICK s \in Slots : s = redirlist[i].renamed[g]
    OBVIOUS
  <2>2. Holds(i, g, s)
    BY <1>0, <2>1 DEF Holds
  <2>3. s # v
    BY <2>2 DEF RInv, Owned
  <2>4. s \in All /\ s # f
    BY Numbers
  <2> QED BY <2>1, <2>3, <2>4
<1>3. \A g \in Fds \ {f} : fds'[g] = fds[g]
  BY Numbers
<1>4. ASSUME NEW i \in 1 .. n, i # n PROVE Notes(fds', redirlist'[i]) = Notes(fds, redirlist[i])
  <2>1. i \in 1 .. n - 1
    BY <1>0, <1>4
  <2>2. redirlist[i].kind # "backquote"
    BY <2>1 DEF MInv, KindInv
  <2>3. Notes(fds', redirlist[i]) = Notes(fds, redirlist[i])
    BY <1>0, <1>2, <2>2, NotesSame
  <2>4. redirlist'[i].kind = redirlist[i].kind /\ redirlist'[i].renamed = redirlist[i].renamed
    BY <1>1, <1>4
  <2> QED BY <2>3, <2>4, NotesOf
<1>5. Notes(fds', redirlist'[n]) = note
  <2> DEFINE top == redirlist[n]
             new == redirlist'[n]
  <2>1. /\ new.kind = top.kind /\ new.renamed = [top.renamed EXCEPT ![f] = v]
        /\ top \in Frame /\ top.renamed \in [Fds -> {EMPTY, CLOSED} \union Slots]
        /\ top.renamed[f] = EMPTY /\ v # EMPTY
    BY <1>0, <1>1, Numbers
  <2>2. saved[n] = Notes(fds, top)
    BY <1>0, LenSaved DEF RInv, Count
  <2>3. f \notin Noted(top) => dest[f] = fds[f]
    <3>1. f \in memory => f \in Noted(top)
      BY <1>0 DEF MInv, MemoryInv, Noted, Old, Top
    <3> QED BY <1>0, <3>1, VisibleIs DEF dest
  <2>4. \A g \in Fds : g # f => /\ new.renamed[g] = top.renamed[g]
                                /\ top.renamed[g] \in {EMPTY, CLOSED} \union Slots
    BY <2>1
  <2>5. new.renamed[f] = v
    BY <2>1
  <2>6. \A g \in Fds : top.renamed[g] \in Slots => fds'[top.renamed[g]] = fds[top.renamed[g]]
    BY <1>0, <1>2
  <2> HIDE DEF top, new
  <2>7. Noted(new) = Noted(top) \union {f}
    BY <2>1, <2>4, <2>5 DEF Noted
  <2>8. Was(fds', new, f) = fds[f] /\ Was(fds, top, f) = fds[f]
    <3>1. Was(fds, top, f) = fds[f]
      BY <2>1, Numbers DEF Was
    <3>2. CASE v = CLOSED
      BY <2>5, <3>1, <3>2, Numbers DEF Was
    <3>3. CASE v \in Slots
      BY <2>5, <3>1, <3>3, Numbers DEF Was
    <3> QED BY <3>2, <3>3
  <2>9. ASSUME NEW g \in Noted(top), g # f PROVE Was(fds', new, g) = Was(fds, top, g)
    <3>1. g \in Fds
      BY <2>9, Numbers DEF Noted, Fds
    <3>2. new.renamed[g] = top.renamed[g] /\ fds'[g] = fds[g]
      BY <1>3, <2>4, <2>9, <3>1
    <3>3. CASE top.renamed[g] = EMPTY
      BY <3>2, <3>3, Numbers DEF Was
    <3>4. CASE top.renamed[g] = CLOSED
      BY <3>2, <3>4, Numbers DEF Was
    <3>5. CASE top.renamed[g] \in Slots
      BY <2>6, <3>1, <3>2, <3>5, Numbers DEF Was
    <3> QED BY <2>4, <2>9, <3>1, <3>3, <3>4, <3>5
  <2>10. DOMAIN saved[n] = Noted(top) /\ \A g \in Noted(top) : saved[n][g] = Was(fds, top, g)
    BY <2>2 DEF Notes
  <2>11. \A g \in Noted(top) \union {f} :
           Was(fds', new, g) = IF g \in Noted(top) THEN saved[n][g] ELSE dest[f]
    BY <2>3, <2>8, <2>9, <2>10
  <2>12. Notes(fds', new) = [g \in Noted(top) \union {f} |->
                               IF g \in Noted(top) THEN saved[n][g] ELSE dest[f]]
    BY <2>7, <2>11 DEF Notes
  <2> QED BY <2>10, <2>12 DEF new
<1>6. /\ Len(saved) = n /\ saved = [i \in 1 .. n |-> saved[i]]
      /\ \A i \in 1 .. n : saved[i] = Notes(fds, redirlist[i])
  BY <1>0, LenSaved DEF RInv, Count
<1>7. saved' = [i \in 1 .. n |-> Notes(fds', redirlist'[i])]
  BY <1>1, SavedIsNext DEF RInv, SavedOK, Count
<1> HIDE DEF note
<1>8. saved' = [saved EXCEPT ![n] = note]
  <2>1. \A i \in 1 .. n : Notes(fds', redirlist'[i]) = IF i = n THEN note ELSE saved[i]
    BY <1>4, <1>5, <1>6
  <2> HIDE DEF n
  <2> QED BY <1>6, <1>7, <2>1
<1>9. saved # <<>>
  BY <1>0, <1>6, EmptySeq
<1> QED BY <1>6, <1>8, <1>9 DEF note

LEMMA SaveMaps ==
  ASSUME RInv, MInv, RInv', NEW f \in Fds, save(f)
  PROVE  R!Redirect(f, Closed)
<1>1. /\ pc \in {"redirect", "program"} /\ push' = push /\ memory' = memory \ {f}
      /\ ~Popping /\ ~Popping' /\ fds \in [All -> Dest] /\ f \in All /\ f \notin Slots
  BY Numbers DEF save, Renamable, Popping, RInv, Typed
<1>2. ASSUME fds'[f] = Closed, \A g \in Fds : g # f => fds'[g] = fds[g], NEW g \in Fds
      PROVE  Visible(g)' = IF g = f THEN Closed ELSE Visible(g)
  BY <1>1, <1>2 DEF Visible
<1>3. CASE ~MustSave(f) /\ fds' = [fds EXCEPT ![f] = Closed] /\ UNCHANGED redirlist
  <2>1. fds'[f] = Closed /\ \A g \in All \ {f} : fds'[g] = fds[g]
    BY <1>1, <1>3
  <2>2. push => redirlist # <<>> /\ Old(f) # EMPTY
    BY <1>1, <1>3 DEF MustSave, RInv, Control
  <2>3. saved' = saved
    BY <1>1, <1>3, <2>1, <2>2, TouchKeepsNotes
  <2> QED BY <1>1, <1>2, <2>1, <2>2, <2>3, RedirectMaps, NotedAlready, Numbers
<1>4. CASE MustSave(f) /\ Free(f) /\ Saved(f, CLOSED) /\ UNCHANGED fds
  <2>1. push /\ fds[f] = Closed
    BY <1>4 DEF MustSave, Free
  <2>2. fds'[f] = Closed /\ \A g \in All : fds'[g] = fds[g]
    BY <1>4, <2>1
  <2>3. CLOSED \in {CLOSED} \union Slots /\ CLOSED \notin Slots
    BY Numbers
  <2>4. /\ saved # <<>>
        /\ saved' = [saved EXCEPT ![Len(saved)] =
             [g \in DOMAIN saved[Len(saved)] \union {f} |->
                IF g \in DOMAIN saved[Len(saved)] THEN saved[Len(saved)][g] ELSE dest[f]]]
    BY <1>1, <1>4, <2>1, <2>2, <2>3, SavingNotes
  <2> QED BY <1>1, <1>2, <2>1, <2>2, <2>4, RedirectMaps, Numbers
<1>5. CASE /\ MustSave(f)
           /\ \E slot \in All :
                /\ copyfd(slot) /\ Saved(f, slot)
                /\ fds' = [fds EXCEPT ![slot] = fds[f], ![f] = Closed]
  <2>1. PICK slot \in All :
          /\ copyfd(slot) /\ Saved(f, slot)
          /\ fds' = [fds EXCEPT ![slot] = fds[f], ![f] = Closed]
    BY <1>5
  <2>2. slot \in Slots /\ Free(slot) /\ slot # f /\ slot # CLOSED
    BY <1>1, <2>1, Numbers DEF copyfd, Base, Slots
  <2>3. /\ fds'[f] = Closed /\ fds'[slot] = fds[f]
        /\ \A g \in All : g # f /\ g # slot => fds'[g] = fds[g]
    BY <1>1, <2>1, <2>2
  <2>4. /\ saved # <<>>
        /\ saved' = [saved EXCEPT ![Len(saved)] =
             [g \in DOMAIN saved[Len(saved)] \union {f} |->
                IF g \in DOMAIN saved[Len(saved)] THEN saved[Len(saved)][g] ELSE dest[f]]]
    <3>1. slot \in {CLOSED} \union Slots
      BY <2>2
    <3> QED BY <1>1, <1>5, <2>1, <2>2, <2>3, <3>1, SavingNotes
  <2>5. \A g \in Fds : g # f => fds'[g] = fds[g]
    BY <2>2, <2>3, Numbers
  <2>6. push
    BY <1>5 DEF MustSave
  <2> QED BY <1>1, <1>2, <2>3, <2>4, <2>5, <2>6, RedirectMaps
<1> QED BY <1>3, <1>4, <1>5 DEF save

(* popredir begins: seen from outside it is done.                          *)
LEMMA PopCompletes ==
  ASSUME RInv, MInv, RInv', redirlist' = redirlist, redirlist # <<>>, ~Popping, pc' = "pop",
         fd' = 0, memory' = {}, fds' = fds, push' = push
  PROVE  R!Complete
<1> DEFINE n == Len(redirlist)
<1>0. /\ n \in Nat /\ n >= 1 /\ n \in 1 .. n /\ Popping' /\ redirlist[n] \in Frame
      /\ \A f \in Fds : Old(f) \in {EMPTY, CLOSED} \union Slots /\ Old(f) = redirlist[n].renamed[f]
      /\ \A g : Old(g)' = Old(g)
  BY FrameFacts DEF RInv, Popping, Old, Top
<1>1. /\ Len(saved) = n /\ saved = [i \in 1 .. n |-> saved[i]]
      /\ \A i \in 1 .. n : saved[i] = Notes(fds, redirlist[i])
  BY <1>0, LenSaved DEF RInv, Count
<1>2. saved' = [i \in 1 .. n - 1 |-> Notes(fds, redirlist[i])]
  BY <1>0, SavedIsNext DEF RInv, SavedOK, Count
<1>3. saved' = SubSeq(saved, 1, n - 1)
  <2>1. saved' = [i \in 1 .. n - 1 |-> saved'[i]] /\ \A i \in 1 .. n - 1 : saved'[i] = saved[i]
    BY <1>0, <1>1, <1>2
  <2>2. n \in Nat /\ n >= 1 /\ saved = [i \in 1 .. n |-> saved[i]]
    BY <1>0, <1>1
  <2> HIDE DEF n
  <2> QED BY <2>1, <2>2, FrontIs
<1>4. saved # <<>>
  BY <1>0, <1>1, EmptySeq
<1>5. ASSUME NEW f \in Fds
      PROVE  Visible(f)' = IF f \in DOMAIN saved[n] THEN saved[n][f] ELSE dest[f]
  <2>1. Visible(f)' = Was(fds, redirlist[n], f)
    <3>1. ~(f < 0) /\ f >= 0
      BY Numbers
    <3>2. Visible(f)' = Restored(f)'
      BY <1>0 DEF Visible
    <3>3. CASE Old(f) = EMPTY
      BY <1>0, <3>1, <3>2, <3>3, Numbers DEF Restored, Was
    <3>4. CASE Old(f) = CLOSED
      BY <1>0, <3>1, <3>2, <3>4, Numbers DEF Restored, Was
    <3>5. CASE Old(f) \in Slots
      BY <1>0, <3>1, <3>2, <3>5, Numbers DEF Restored, Was
    <3> QED BY <1>0, <3>3, <3>4, <3>5
  <2>2. DOMAIN saved[n] = Noted(redirlist[n])
        /\ \A g \in Noted(redirlist[n]) : saved[n][g] = Was(fds, redirlist[n], g)
    BY <1>0, <1>1 DEF Notes
  <2>3. ASSUME f \notin Noted(redirlist[n])
        PROVE  Was(fds, redirlist[n], f) = dest[f]
    <3>1. Old(f) = EMPTY /\ Was(fds, redirlist[n], f) = fds[f]
      BY <1>0, <2>3, Numbers DEF Noted, Was
    <3>2. f \notin memory
      BY <1>0, <2>3, <3>1 DEF MInv, MemoryInv, Noted, Top
    <3> QED BY <3>1, <3>2, VisibleIs DEF dest
  <2> QED BY <2>1, <2>2, <2>3
<1>6. dest' = [f \in Fds |-> IF f \in DOMAIN saved[n] THEN saved[n][f] ELSE dest[f]]
  BY <1>5 DEF dest
<1> QED BY <1>1, <1>3, <1>4, <1>6 DEF R!Complete, R!Innermost, dest, saved

(* What popredir then does cannot be seen, nor does it change what is      *)
(* noted for the commands further out.                                     *)
LEMMA PopInvisible ==
  ASSUME RInv, MInv, RInv', MInv', popredir
  PROVE  UNCHANGED R!vars
<1> DEFINE n == Len(redirlist)
<1>0. /\ Popping /\ n \in Nat /\ n \in 1 .. n /\ fds \in [All -> Dest] /\ fd \in 0 .. Named
      /\ \A f \in Fds : f \in Nat /\ Old(f) = redirlist[n].renamed[f]
                        /\ Old(f) \in {EMPTY, CLOSED} \union Slots
      /\ \A i \in 1 .. n : redirlist[i] \in Frame
      /\ push' = push /\ memory = {} /\ memory' = {}
  BY FrameFacts, Numbers DEF popredir, popredir_close, popredir_copy, popredir_drop, popredir_done,
     Popping, RInv, Control, Typed, Old, Top, MInv, MemoryInv
<1>1. ASSUME popredir_done PROVE UNCHANGED R!vars
  <2>1. /\ redirlist' = SubSeq(redirlist, 1, n - 1) /\ fds' = fds /\ fd = Named /\ ~Popping'
        /\ memory' = {}
    BY <1>1 DEF popredir_done, Popping, MInv, MemoryInv
  <2>2. Len(redirlist') = n - 1 /\ \A i \in 1 .. n - 1 : redirlist'[i] = redirlist[i]
    BY <1>0, <2>1, FrontFacts DEF RInv, Typed
  <2>3. saved' = saved
    <3>1. Count = n - 1 /\ Count' = n - 1
      BY <1>0, <2>1, <2>2 DEF Count
    <3> QED BY <2>1, <2>2, <3>1, SavedKept DEF RInv
  <2>4. ASSUME NEW f \in Fds PROVE Visible(f)' = Visible(f)
    <3>1. f < fd /\ f \in Nat /\ fd \in Nat
      BY <1>0, <2>1, Numbers
    <3>2. Visible(f) = fds[f]
      BY <1>0, <3>1 DEF Visible, Restored
    <3>3. Visible(f)' = fds'[f]
      BY <2>1 DEF Visible
    <3> QED BY <2>1, <3>2, <3>3
  <2>5. dest' = dest
    BY <2>4 DEF dest
  <2> QED BY <1>0, <2>3, <2>5 DEF R!vars, dest, saved
<1>2. ASSUME ~popredir_done PROVE UNCHANGED R!vars
  <2>0. redirlist' = redirlist /\ Popping' /\ fd \in Fds /\ \A g : Old(g)' = Old(g)
    BY <1>0, <1>2, Numbers DEF popredir, popredir_close, popredir_copy, popredir_drop, Popping,
       RInv, Control, Fds, Old, Top
  <2>1. PICK d \in Fds : d = fd
    BY <2>0
  <2>2. \/ /\ Old(d) = EMPTY /\ fds' = fds /\ fd' = d + 1
        \/ /\ Old(d) = CLOSED /\ fds' = [fds EXCEPT ![d] = Closed] /\ fd' = d + 1
        \/ /\ Old(d) \in Slots /\ fds' = [fds EXCEPT ![d] = Closed] /\ fd' = d
        \/ /\ Old(d) \in Slots /\ fds' = [fds EXCEPT ![d] = fds[Old(d)]] /\ fd' = d
        \/ /\ Old(d) \in Slots /\ fds[d] = fds[Old(d)]
           /\ fds' = [fds EXCEPT ![Old(d)] = Closed] /\ fd' = d + 1
    <3>1. CASE popredir_close
      BY <1>0, <2>1, <3>1 DEF popredir_close
    <3>2. CASE popredir_copy
      BY <2>1, <3>2 DEF popredir_copy, RInv, Control
    <3>3. CASE popredir_drop
      BY <2>1, <3>3 DEF popredir_drop, Dropped, RInv, Control, MInv, OpenInv
    <3> QED BY <1>2, <3>1, <3>2, <3>3 DEF popredir
  <2>3. ASSUME NEW i \in 1 .. n, NEW f \in Fds, NEW s \in Slots, redirlist[i].renamed[f] = s,
               i # n \/ (f # d /\ ~(f < d))
        PROVE  fds'[s] = fds[s]
    <3>1. Holds(i, f, s)
      BY <1>0, <2>1, <2>3 DEF Holds
    <3>2. Old(d) \in Slots => Holds(n, d, Old(d))
      BY <1>0, <2>1 DEF Holds
    <3>3. s # Old(d)
      BY <2>3, <3>1, <3>2 DEF RInv, Owned
    <3>4. s # d /\ s \in All
      BY Numbers
    <3> QED BY <1>0, <2>2, <3>3, <3>4
  <2>4. \A f \in Fds : f # d => fds'[f] = fds[f]
    BY <1>0, <2>2, Numbers
  <2>5. saved' = saved
    <3>1. ASSUME NEW i \in 1 .. n - 1
          PROVE  Notes(fds', redirlist[i]) = Notes(fds, redirlist[i])
      <4>1. i \in 1 .. n /\ i # n
        BY <1>0
      <4>2. redirlist[i].kind # "backquote"
        BY DEF MInv, KindInv
      <4>3. \A f \in Fds : redirlist[i].renamed[f] \in Slots =>
              fds'[redirlist[i].renamed[f]] = fds[redirlist[i].renamed[f]]
        BY <2>3, <4>1
      <4> QED BY <1>0, <4>1, <4>2, <4>3, NotesSame
    <3>2. Count = n - 1 /\ Count' = n - 1
      BY <1>0, <2>0 DEF Count
    <3> QED BY <2>0, <3>1, <3>2, SavedKept DEF RInv
  <2>6. ASSUME NEW f \in Fds PROVE Visible(f)' = Visible(f)
    <3>0. Visible(f) = Restored(f) /\ Visible(f)' = Restored(f)' /\ f \in Nat /\ d \in Nat
      BY <1>0, <2>0 DEF Visible
    <3>1. CASE f = d
      <4>1. CASE Old(d) = EMPTY
        BY <1>0, <2>0, <2>1, <2>2, <3>0, <3>1, <4>1, Numbers DEF Restored
      <4>2. CASE Old(d) = CLOSED
        <5>1. fds'[d] = Closed /\ fd' = d + 1 /\ d < fd'
          BY <1>0, <2>2, <3>0, <4>2, Numbers
        <5> QED BY <1>0, <2>0, <2>1, <3>0, <3>1, <4>2, <5>1, Numbers DEF Restored
      <4>3. CASE Old(d) \in Slots
        <5>1. Old(d) # d /\ Old(d) \in All /\ d \in All
          BY <4>3, Numbers
        <5>2. Restored(f) = fds[Old(d)]
          BY <2>1, <3>0, <3>1, <4>3, Numbers DEF Restored
        <5>3. CASE fd' = d
          <6>1. fds'[Old(d)] = fds[Old(d)]
            BY <1>0, <2>2, <3>0, <5>1, <5>3, <4>3, Numbers
          <6>2. Restored(f)' = fds'[Old(d)]
            BY <2>0, <3>0, <3>1, <4>3, <5>3, Numbers DEF Restored
          <6> QED BY <3>0, <5>2, <6>1, <6>2
        <5>4. CASE fd' = d + 1
          <6>1. fds'[d] = fds[Old(d)]
            BY <1>0, <2>2, <3>0, <5>1, <5>4, <4>3, Numbers
          <6>2. Restored(f)' = fds'[d]
            BY <2>0, <3>0, <3>1, <4>3, <5>4, Numbers DEF Restored
          <6> QED BY <3>0, <5>2, <6>1, <6>2
        <5> QED BY <2>2, <5>3, <5>4
      <4> QED BY <1>0, <4>1, <4>2, <4>3
    <3>2. CASE f # d
      <4>1. fds'[f] = fds[f] /\ (f < fd' <=> f < fd)
        BY <2>1, <2>2, <2>4, <3>0, <3>2
      <4>2. CASE Old(f) = EMPTY \/ f < fd
        <5>1. fd \in Int /\ fd' \in Int
          BY <1>0, <2>1, <2>2, <3>0
        <5> QED BY <2>0, <3>0, <4>1, <4>2, <5>1, Numbers DEF Restored
      <4>3. CASE Old(f) = CLOSED /\ ~(f < fd)
        <5>1. fd \in Int /\ fd' \in Int
          BY <1>0, <2>1, <2>2, <3>0
        <5> QED BY <2>0, <3>0, <4>1, <4>3, <5>1, Numbers DEF Restored
      <4>4. CASE Old(f) \in Slots /\ ~(f < fd)
        <5>1. fds'[Old(f)] = fds[Old(f)]
          BY <1>0, <2>1, <2>3, <3>2, <4>4
        <5> QED BY <2>0, <3>0, <4>1, <4>4, <5>1, Numbers DEF Restored
      <4> QED BY <1>0, <4>2, <4>3, <4>4
    <3> QED BY <3>1, <3>2
  <2>7. dest' = dest
    BY <2>6 DEF dest
  <2> QED BY <1>0, <2>5, <2>7 DEF R!vars, dest, saved
<1> QED BY <1>1, <1>2

(* Errors and interrupts are not seen until reset pops the frames.         *)
LEMMA RestInvisible ==
  ASSUME ~PopInterrupts, RInv, MInv, RInv',
         OutOfDescriptors \/ Redirected \/ Fails \/ onint \/ UNCHANGED vars
         \/ (reset /\ redirlist = <<>>)
  PROVE  UNCHANGED R!vars
<1>1. UNCHANGED <<fds, redirlist, push>> /\ \A g : Old(g)' = Old(g)
  BY DEF OutOfDescriptors, Redirected, Fails, onint, error, reset, vars, Old, Top
<1>2. memory' = memory
  BY DEF OutOfDescriptors, Redirected, Fails, onint, error, reset, vars, MInv, MemoryInv
<1>3. (~Popping /\ ~Popping') \/ UNCHANGED vars
  BY DEF OutOfDescriptors, Redirected, Fails, onint, error, reset, vars, Popping, Renamable
<1>4. Popping' = Popping /\ (Popping => fd' = fd)
  BY <1>3 DEF vars, Popping
<1>5. \A f \in Fds : Visible(f)' = Visible(f)
  BY <1>1, <1>2, <1>4 DEF Visible, Restored
<1>6. dest' = dest
  BY <1>5 DEF dest
<1>7. saved' = saved
  BY <1>1, <1>4, SavedKept DEF RInv, Count
<1> QED BY <1>1, <1>6, <1>7 DEF R!vars, dest, saved

LEMMA StepRefines ==
  ASSUME ~PopInterrupts, RInv, MInv, RInv', MInv', [Next]_vars
  PROVE  R!Next \/ UNCHANGED R!vars
<1>1. ASSUME NEW k \in Kinds, redirect(k) PROVE R!Next
  <2>1. PICK F \in {{}, {1}} : R!Begin(F)
    BY <1>1, RedirectBegins
  <2> QED BY <2>1 DEF R!Next
<1>2. ASSUME NEW f \in Fds, save(f) PROVE R!Next
  <2>1. R!Redirect(f, Closed)
    BY <1>2, SaveMaps
  <2> QED BY <2>1 DEF R!Next
<1>3. exec => R!Next
  BY ExecMaps DEF R!Next
<1>4. clearredir => R!Next
  BY ClearDiscards DEF R!Next
<1>5. ASSUME Complete \/ (reset /\ redirlist # <<>>) PROVE R!Next
  <2>1. R!Complete
    <3>1. /\ redirlist' = redirlist /\ redirlist # <<>> /\ ~Popping /\ pc' = "pop"
          /\ fd' = 0 /\ memory' = {} /\ fds' = fds /\ push' = push
      BY <1>5 DEF Complete, reset, Popping
    <3> QED BY <3>1, PopCompletes
  <2> QED BY <2>1 DEF R!Next
<1>6. openredirect => R!Next \/ UNCHANGED R!vars
  BY OpenRedirects
<1>7. popredir => UNCHANGED R!vars
  BY PopInvisible
<1>8. OutOfDescriptors \/ Redirected \/ Fails \/ onint \/ UNCHANGED vars
        \/ (reset /\ redirlist = <<>>) => UNCHANGED R!vars
  BY RestInvisible
<1> QED BY <1>1, <1>2, <1>3, <1>4, <1>5, <1>6, <1>7, <1>8 DEF Next

LEMMA InitRefines == Init => R!Init
<1> SUFFICES ASSUME Init PROVE R!Init
  OBVIOUS
<1>1. ~Popping /\ memory = {} /\ redirlist = <<>> /\ push = FALSE
      /\ fds \in [All -> Files \union {Closed}]
  BY DEF Init, Popping
<1>2. \A f \in Fds : Visible(f) = fds[f] /\ fds[f] \in Files \union {Closed}
  BY <1>1, Numbers DEF Visible
<1>3. dest \in [Fds -> Files \union {Closed}]
  BY <1>2 DEF dest
<1>4. saved = <<>>
  <2>1. DOMAIN UnderWay = {}
    BY <1>1 DEF UnderWay
  <2> QED BY <2>1 DEF saved
<1>5. (~push) \in BOOLEAN
  BY <1>1, Zenon
<1> QED BY <1>3, <1>4, <1>5 DEF R!Init, dest, saved

(* Commands see the redirections they asked for and no others, and what    *)
(* they redirected is as before when they complete, fail or are            *)
(* interrupted outside popredir: redirect, popredir and reset implement    *)
(* Redirections.                                                           *)
THEOREM Refinement ==
  ASSUME ~PopInterrupts PROVE Spec => Implements
<1>1. RInv /\ MInv /\ [Next]_vars => MInv'
  BY StepMemory
<1>2. RInv /\ RInv' /\ MInv /\ MInv' /\ [Next]_vars => [R!Next]_(R!vars)
  BY StepRefines
<1>3. Spec => []MInv
  BY <1>1, InitMemory, Invariance, PTL DEF Spec
<1> QED BY <1>2, <1>3, InitRefines, Invariance, PTL DEF Spec, Implements, R!Spec

=============================================================================
