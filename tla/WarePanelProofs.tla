--------------------------- MODULE WarePanelProofs --------------------------
(***************************************************************************)
(* Theorems about WarePanel.tla, for any wares, threads and bounds.        *)
(* PanelInv says where a ware that was added may be on its way to the      *)
(* window, and what the window has before and after it is loaded.          *)
(***************************************************************************)
EXTENDS WarePanel, SequenceTheorems, TLAPS

\* An event is waiting in a queue.
In(q, e) == \E i \in DOMAIN q : q[i] = e

\* The signals of wares added are in it once.
Once(q) ==
    \A i, j \in DOMAIN q : q[i] = q[j] /\ q[i].signal = "added" => i = j

Added(c) == WareSignal("added", c)

\* In the window's list, or in it once it is loaded.
Known(c) ==
    \/ \E i \in DOMAIN configWares : configWares[i] = c
    \/ \E i \in DOMAIN panel : panel[i].code = c

\* That a ware was added is told by one handler, by one event of one queue, or
\* by the list.
HeldOK(c) ==
    \A w \in Workers : held[w] = <<Added(c)>> =>
        /\ \A v \in Workers : held[v] = <<Added(c)>> => v = w
        /\ c \in table
        /\ ~In(toManager, Added(c))
        /\ ~In(toWindow, Added(c))
        /\ ~Known(c)

QueuedOK(c) ==
    /\ In(toManager, Added(c)) => /\ c \in table
                                  /\ ~In(toWindow, Added(c))
                                  /\ ~Known(c)
    /\ In(toWindow, Added(c)) => c \in table /\ ~Known(c)
    /\ Known(c) => c \in table

PlacesOK ==
    /\ \A c \in Codes : HeldOK(c) /\ QueuedOK(c)
    /\ Once(toManager)
    /\ Once(toWindow)
    /\ NoWareTwice

\* The list is still to be loaded.
Pending == toWindow # <<>> /\ Head(toWindow).signal = "loaded"

\* Nothing comes to the window before it is loaded, after which its list ends
\* with the wares ConfigManager listed.
LoadOK ==
    /\ \A i \in DOMAIN toWindow : toWindow[i].signal = "loaded" => i = 1
    /\ Pending => panel = <<>>
    /\ ~Pending =>
        /\ Len(panel) >= Len(configWares)
        /\ \A i \in DOMAIN configWares :
              panel[Len(panel) - Len(configWares) + i].code = configWares[i]

\* The outcome of an upload is of the ware ConfigManager has at that index.
UploadedOK ==
    \A i \in DOMAIN toWindow : toWindow[i].signal = "uploaded" =>
        /\ toWindow[i].index + 1 \in DOMAIN configWares
        /\ toWindow[i].code = configWares[toWindow[i].index + 1]

Asks(e) == e.signal = "upload"
Answers(e) == e.signal \in {"uploaded", "error", "missing"}

\* While the window is covered, one event is about the upload.
OneUpload ==
    /\ \A i, j \in DOMAIN toManager : Asks(toManager[i]) /\ Asks(toManager[j]) => i = j
    /\ \A i, j \in DOMAIN toWindow : Answers(toWindow[i]) /\ Answers(toWindow[j]) => i = j
    /\ \A i \in DOMAIN toManager, j \in DOMAIN toWindow :
            ~(Asks(toManager[i]) /\ Answers(toWindow[j]))
    /\ user = "loading" <=> \/ \E i \in DOMAIN toManager : Asks(toManager[i])
                            \/ \E i \in DOMAIN toWindow : Answers(toWindow[i])

PanelInv ==
    /\ ValuesOK
    /\ OneUpload
    /\ PlacesOK
    /\ LoadOK
    /\ UploadedOK
    /\ ShownIsOwn
    /\ CurrentIsChosen

-----------------------------------------------------------------------------
(* Queues and the events in them.                                          *)

\* Posting an event puts it behind those that wait.
LEMMA Posting ==
    ASSUME NEW q \in Seq(Signals), NEW e \in Signals
    PROVE  LET r == Append(q, e)
           IN  /\ r \in Seq(Signals)
               /\ Len(r) = Len(q) + 1
               /\ DOMAIN r = 1 .. Len(q) + 1
               /\ \A i \in DOMAIN q : r[i] = q[i]
               /\ r[Len(q) + 1] = e
  BY AppendProperties

\* Taking one moves the others up.
LEMMA Taking ==
    ASSUME NEW q \in Seq(Signals), q # <<>>
    PROVE  LET r == Tail(q)
           IN  /\ r \in Seq(Signals)
               /\ Len(r) = Len(q) - 1
               /\ DOMAIN r = 1 .. Len(q) - 1
               /\ \A i \in DOMAIN r : r[i] = q[i + 1] /\ i + 1 \in DOMAIN q
               /\ 1 \in DOMAIN q
               /\ Head(q) = q[1] /\ Head(q) \in Signals
  BY HeadTailProperties

LEMMA PostingIn ==
    ASSUME NEW q \in Seq(Signals), NEW e \in Signals
    PROVE  \A x : In(Append(q, e), x) <=> In(q, x) \/ x = e
<1> DEFINE r == Append(q, e)
<1>1. /\ DOMAIN r = 1 .. Len(q) + 1
      /\ \A i \in DOMAIN q : r[i] = q[i]
      /\ r[Len(q) + 1] = e
  BY Posting
<1> HIDE DEF r
<1>2. DOMAIN q = 1 .. Len(q) /\ Len(q) \in Nat
  OBVIOUS
<1>3. \A x : In(r, x) <=> In(q, x) \/ x = e
  BY <1>1, <1>2 DEF In
<1> QED
  BY <1>3 DEF r

LEMMA PostingOnce ==
    ASSUME NEW q \in Seq(Signals), NEW e \in Signals,
           Once(q), e.signal = "added" => ~In(q, e)
    PROVE  Once(Append(q, e))
<1> DEFINE r == Append(q, e)
<1>1. /\ DOMAIN r = 1 .. Len(q) + 1
      /\ \A i \in DOMAIN q : r[i] = q[i]
      /\ r[Len(q) + 1] = e
  BY Posting
<1> HIDE DEF r
<1>2. DOMAIN q = 1 .. Len(q) /\ Len(q) \in Nat
  OBVIOUS
<1>3. Once(r)
  <2> SUFFICES ASSUME NEW i \in DOMAIN r, NEW j \in DOMAIN r, r[i] = r[j],
                      r[i].signal = "added"
               PROVE  i = j
    BY DEF Once
  <2>1. CASE i \in DOMAIN q /\ j \in DOMAIN q
    BY <2>1, <1>1 DEF Once
  <2>2. CASE i = Len(q) + 1 \/ j = Len(q) + 1
    BY <2>2, <1>1, <1>2 DEF In
  <2> QED
    BY <2>1, <2>2, <1>1, <1>2
<1> QED
  BY <1>3 DEF r

LEMMA TakingIn ==
    ASSUME NEW q \in Seq(Signals), q # <<>>
    PROVE  \A x : In(Tail(q), x) => In(q, x)
  BY Taking DEF In

LEMMA HeadIn ==
    ASSUME NEW q \in Seq(Signals), q # <<>>
    PROVE  In(q, Head(q))
  BY Taking DEF In

LEMMA TakingOnce ==
    ASSUME NEW q \in Seq(Signals), q # <<>>, Once(q)
    PROVE  /\ Once(Tail(q))
           /\ Head(q).signal = "added" => ~In(Tail(q), Head(q))
<1> DEFINE r == Tail(q)
<1>1. /\ DOMAIN r = 1 .. Len(q) - 1
      /\ \A i \in DOMAIN r : r[i] = q[i + 1] /\ i + 1 \in DOMAIN q
      /\ 1 \in DOMAIN q /\ Head(q) = q[1]
  BY Taking
<1> HIDE DEF r
<1>2. Len(q) \in Nat
  OBVIOUS
<1>3. Once(r)
  BY <1>1, <1>2 DEF Once
<1>4. Head(q).signal = "added" => ~In(r, Head(q))
  BY <1>1, <1>2 DEF Once, In
<1> QED
  BY <1>3, <1>4 DEF r

\* What an event is, by its signal.
LEMMA Kinds ==
    ASSUME NEW e \in Signals
    PROVE  /\ e.signal \in {"added", "updated"} =>
                e.code \in Codes /\ e = WareSignal(e.signal, e.code)
           /\ e.signal = "upload" => e.index \in Nat
           /\ e.signal = "uploaded" => e.index \in Nat /\ e.code \in Codes
  BY DEF Signals, WareSignal

LEMMA Events ==
    /\ [signal |-> "loaded"] \in Signals
    /\ UploadError \in Signals /\ UploadError.signal = "error"
    /\ Missing \in Signals /\ Missing.signal = "missing"
    /\ \A n \in Nat : Upload(n) \in Signals /\ Upload(n).signal = "upload"
    /\ \A c \in Codes, s \in {"added", "updated"} :
            WareSignal(s, c) \in Signals /\ WareSignal(s, c).signal = s
    /\ \A n \in Nat : n + 1 \in DOMAIN configWares =>
            /\ Uploaded(n) \in Signals
            /\ Uploaded(n).signal = "uploaded"
            /\ Uploaded(n).index = n
            /\ Uploaded(n).code = configWares[n + 1]
<1>1. \A n \in Nat : n + 1 \in DOMAIN configWares => configWares[n + 1] \in Codes
  BY WarePanelAssumption DEF configWares
<1> QED
  BY <1>1 DEF Signals, UploadError, Missing, Upload, WareSignal, Uploaded

-----------------------------------------------------------------------------
(* What posting to a queue and taking from it does to the invariant.       *)

\* Before the window is loaded only that event is its first.
LEMMA PostingLoad ==
    ASSUME ValuesOK, LoadOK, NEW e \in Signals, e.signal # "loaded",
           toWindow' = Append(toWindow, e), panel' = panel
    PROVE  LoadOK'
<1> USE DEF ValuesOK, QueueValuesOK, configWares
<1>1. /\ toWindow' # <<>> /\ Len(toWindow') = Len(toWindow) + 1
      /\ DOMAIN toWindow' = 1 .. Len(toWindow) + 1
      /\ \A i \in DOMAIN toWindow : toWindow'[i] = toWindow[i]
      /\ toWindow'[Len(toWindow) + 1] = e
      /\ Head(toWindow') = toWindow'[1]
  BY Posting
<1>2. Pending' <=> Pending
  BY <1>1 DEF Pending
<1> QED
  BY <1>1, <1>2 DEF LoadOK

\* Once the first event is another one, the window has its list.
LEMMA TakingLoad ==
    ASSUME ValuesOK, LoadOK, toWindow # <<>>, toWindow' = Tail(toWindow)
    PROVE  /\ ~Pending'
           /\ \A i \in DOMAIN toWindow' : toWindow'[i].signal # "loaded"
           /\ Pending <=> Head(toWindow).signal = "loaded"
<1> USE DEF ValuesOK, QueueValuesOK
<1>1. /\ toWindow' \in Seq(Signals)
      /\ DOMAIN toWindow' = 1 .. Len(toWindow) - 1
      /\ \A i \in DOMAIN toWindow' : toWindow'[i] = toWindow[i + 1] /\ i + 1 \in DOMAIN toWindow
  BY Taking
<1>2. \A i \in DOMAIN toWindow' : toWindow'[i].signal # "loaded"
  BY <1>1 DEF LoadOK
<1>3. toWindow' # <<>> => 1 \in DOMAIN toWindow' /\ Head(toWindow') = toWindow'[1]
  BY <1>1
<1> QED
  BY <1>2, <1>3 DEF Pending

\* The places of wares do not change with an event of another kind.
LEMMA SamePlaces ==
    ASSUME PlacesOK, UNCHANGED panel,
           table \subseteq table',
           \A c \in Codes, w \in Workers : held'[w] = <<Added(c)>> => held[w] = <<Added(c)>>,
           \A c \in Codes : In(toManager', Added(c)) => In(toManager, Added(c)),
           \A c \in Codes : In(toWindow', Added(c)) => In(toWindow, Added(c)),
           Once(toManager'), Once(toWindow')
    PROVE  PlacesOK'
<1>1. \A c \in Codes : Known(c)' <=> Known(c)
  BY DEF Known, configWares
<1>2. NoWareTwice'
  BY DEF PlacesOK, NoWareTwice
<1>3. ASSUME NEW c \in Codes
      PROVE  HeldOK(c)' /\ QueuedOK(c)'
  BY <1>1 DEF PlacesOK, HeldOK, QueuedOK
<1> QED
  BY <1>2, <1>3 DEF PlacesOK

-----------------------------------------------------------------------------
(* The handlers' threads.                                                  *)

\* A ware that is inserted was in no list, queue or hand.
LEMMA AddWareKeeps ==
    ASSUME PanelInv, NEW w \in Workers, NEW c \in Codes, AddWare(w, c)
    PROVE  PanelInv'
<1> USE DEF AddWare, windowVars
<1>1. ValuesOK'
  <2>1. HandlerValuesOK'
    BY DEF PanelInv, ValuesOK, HandlerValuesOK, Announcements
  <2> QED
    BY <2>1 DEF PanelInv, ValuesOK, QueueValuesOK, WindowValuesOK
<1>2. PlacesOK'
  <2>1. ASSUME NEW d \in Codes
        PROVE  HeldOK(d)' /\ QueuedOK(d)'
    <3>1. Known(d)' <=> Known(d)
      BY DEF Known, configWares
    <3>2. held' = [held EXCEPT ![w] = <<Added(c)>>] /\ held \in [Workers -> Announcements]
      BY DEF PanelInv, ValuesOK, HandlerValuesOK, Added
    <3>3. HeldOK(d) /\ QueuedOK(d)
      BY DEF PanelInv, PlacesOK
    <3>4. CASE d = c
      BY <3>1, <3>2, <3>3, <3>4 DEF HeldOK, QueuedOK
    <3>5. CASE d # c
      <4>1. Added(c) # Added(d)
        BY <3>5 DEF Added, WareSignal
      <4> QED
        BY <3>1, <3>2, <3>3, <4>1 DEF HeldOK, QueuedOK
    <3> QED
      BY <3>4, <3>5
  <2> QED
    BY <2>1 DEF PanelInv, PlacesOK, Once, NoWareTwice
<1>3. OneUpload' /\ LoadOK' /\ UploadedOK'
  BY DEF PanelInv, OneUpload, LoadOK, Pending, UploadedOK, configWares
<1>4. ShownIsOwn' /\ CurrentIsChosen'
  BY DEF PanelInv, ShownIsOwn, CurrentIsChosen, configWares
<1> QED
  BY <1>1, <1>2, <1>3, <1>4 DEF PanelInv

LEMMA ModifyWareKeeps ==
    ASSUME PanelInv, NEW w \in Workers, NEW c \in Codes, ModifyWare(w, c)
    PROVE  PanelInv'
<1> USE DEF ModifyWare, windowVars
<1>1. ValuesOK'
  <2>1. HandlerValuesOK'
    BY DEF PanelInv, ValuesOK, HandlerValuesOK, Announcements
  <2> QED
    BY <2>1 DEF PanelInv, ValuesOK, QueueValuesOK, WindowValuesOK
<1>2. PlacesOK'
  <2>1. \A d \in Codes, v \in Workers : held'[v] = <<Added(d)>> => held[v] = <<Added(d)>>
    BY DEF PanelInv, ValuesOK, HandlerValuesOK, Added, WareSignal
  <2> QED
    BY <2>1, SamePlaces DEF PanelInv, PlacesOK
<1>3. OneUpload' /\ LoadOK' /\ UploadedOK'
  BY DEF PanelInv, OneUpload, LoadOK, Pending, UploadedOK, configWares
<1>4. ShownIsOwn' /\ CurrentIsChosen'
  BY DEF PanelInv, ShownIsOwn, CurrentIsChosen, configWares
<1> QED
  BY <1>1, <1>2, <1>3, <1>4 DEF PanelInv

\* What a handler emits is one signal of a ware.
LEMMA Announced ==
    ASSUME PanelInv, NEW w \in Workers, Emit(w)
    PROVE  \E s \in {"added", "updated"}, c \in Codes : held[w] = <<WareSignal(s, c)>>
<1>1. held[w] \in Announcements /\ held[w] # <<>>
  BY DEF PanelInv, ValuesOK, HandlerValuesOK, Emit
<1>2. held[w] \in {<<WareSignal(s, c)>> : s \in {"added", "updated"}, c \in Codes}
  BY <1>1 DEF Announcements
<1> QED
  BY <1>2

\* The signal goes from the handler to the queue.
LEMMA EmitKeeps ==
    ASSUME PanelInv, NEW w \in Workers, Emit(w)
    PROVE  PanelInv'
<1>1. PICK s \in {"added", "updated"}, c \in Codes : held[w] = <<WareSignal(s, c)>>
  BY Announced
<1> USE DEF Emit, windowVars
<1> DEFINE e == WareSignal(s, c)
<1>2. e \in Signals /\ e.signal = s
  BY Events
<1>3. toManager \in Seq(Signals)
  BY DEF PanelInv, ValuesOK, QueueValuesOK
<1> HIDE DEF e
<1>4. toManager' = Append(toManager, e)
  BY <1>1, <1>2, <1>3, AppendIsConcat DEF e
<1>5. ValuesOK'
  <2>1. HandlerValuesOK'
    BY DEF PanelInv, ValuesOK, HandlerValuesOK, Announcements
  <2>2. QueueValuesOK'
    BY <1>2, <1>3, <1>4, Posting DEF PanelInv, ValuesOK, QueueValuesOK
  <2> QED
    BY <2>1, <2>2 DEF PanelInv, ValuesOK, WindowValuesOK
<1>6. PlacesOK'
  <2>1. ASSUME NEW d \in Codes
        PROVE  /\ HeldOK(d)' /\ QueuedOK(d)'
               /\ e = Added(d) => ~In(toManager, e)
    <3>1. Known(d)' <=> Known(d)
      BY DEF Known, configWares
    <3>2. In(toManager', Added(d)) <=> In(toManager, Added(d)) \/ Added(d) = e
      BY <1>2, <1>3, <1>4, PostingIn
    <3>3. \A v \in Workers : held'[v] = IF v = w THEN <<>> ELSE held[v]
      BY DEF PanelInv, ValuesOK, HandlerValuesOK
    <3>4. HeldOK(d) /\ QueuedOK(d)
      BY DEF PanelInv, PlacesOK
    <3>5. held[w] = <<e>>
      BY <1>1 DEF e
    <3> QED
      BY <3>1, <3>2, <3>3, <3>4, <3>5 DEF HeldOK, QueuedOK
  <2>2. e.signal = "added" => e = Added(c)
    BY <1>2 DEF e, Added
  <2>3. Once(toManager')
    BY <1>2, <1>3, <1>4, <2>1, <2>2, PostingOnce DEF PanelInv, PlacesOK
  <2> QED
    BY <2>1, <2>3 DEF PanelInv, PlacesOK, Once, NoWareTwice
<1>7. OneUpload'
  BY <1>2, <1>3, <1>4, Posting DEF PanelInv, OneUpload, Asks
<1>8. LoadOK' /\ UploadedOK'
  BY DEF PanelInv, LoadOK, Pending, UploadedOK, configWares
<1>9. ShownIsOwn' /\ CurrentIsChosen'
  BY DEF PanelInv, ShownIsOwn, CurrentIsChosen, configWares
<1> QED
  BY <1>5, <1>6, <1>7, <1>8, <1>9 DEF PanelInv

-----------------------------------------------------------------------------
(* ConfigManager's thread.                                                 *)

\* What it takes and what it has left.
LEMMA ManagerTakes ==
    ASSUME PanelInv, NEW signals, NextForManager(signals)
    PROVE  /\ toManager # <<>> /\ toManager' = Tail(toManager)
           /\ toManager \in Seq(Signals) /\ toManager' \in Seq(Signals)
           /\ Head(toManager) \in Signals /\ Head(toManager).signal \in signals
           /\ \A i \in DOMAIN toManager' : toManager'[i] = toManager[i + 1]
                                           /\ i + 1 \in DOMAIN toManager /\ i + 1 # 1
           /\ 1 \in DOMAIN toManager /\ Head(toManager) = toManager[1]
           /\ \A x : In(toManager', x) => In(toManager, x)
           /\ Once(toManager')
           /\ UNCHANGED <<tableVars, up, windowVars>>
<1>1. toManager \in Seq(Signals) /\ toManager # <<>> /\ Once(toManager)
  BY DEF PanelInv, ValuesOK, QueueValuesOK, PlacesOK, NextForManager
<1>2. /\ Tail(toManager) \in Seq(Signals)
      /\ Head(toManager) \in Signals
      /\ 1 \in DOMAIN toManager /\ Head(toManager) = toManager[1]
      /\ \A i \in DOMAIN Tail(toManager) : Tail(toManager)[i] = toManager[i + 1]
                                           /\ i + 1 \in DOMAIN toManager /\ i + 1 # 1
  BY <1>1, Taking
<1>3. Once(Tail(toManager)) /\ \A x : In(Tail(toManager), x) => In(toManager, x)
  BY <1>1, TakingOnce, TakingIn
<1> QED
  BY <1>1, <1>2, <1>3 DEF NextForManager

\* A signal goes from one queue to the other.
LEMMA ForwardKeeps ==
    ASSUME PanelInv, Forward
    PROVE  PanelInv'
<1> DEFINE e == Head(toManager)
<1> USE DEF tableVars, windowVars
<1>1. NextForManager({"added", "updated"}) /\ toWindow' = Append(toWindow, e)
  BY DEF Forward
<1>2. /\ toManager \in Seq(Signals) /\ toManager # <<>> /\ toManager' = Tail(toManager)
      /\ toManager' \in Seq(Signals)
      /\ e \in Signals /\ e.signal \in {"added", "updated"}
      /\ \A i \in DOMAIN toManager' : toManager'[i] = toManager[i + 1]
                                      /\ i + 1 \in DOMAIN toManager /\ i + 1 # 1
      /\ 1 \in DOMAIN toManager /\ e = toManager[1]
      /\ \A x : In(toManager', x) => In(toManager, x)
      /\ Once(toManager')
      /\ UNCHANGED <<tableVars, up, windowVars>>
  BY <1>1, ManagerTakes
<1>3. toWindow \in Seq(Signals)
  BY DEF PanelInv, ValuesOK, QueueValuesOK
<1>4. In(toManager, e) /\ (e.signal = "added" => ~In(toManager', e))
  BY <1>2, HeadIn, TakingOnce DEF PanelInv, PlacesOK
<1>5. e.code \in Codes /\ e = WareSignal(e.signal, e.code)
  BY <1>2, Kinds
<1> HIDE DEF e
<1>6. /\ toWindow' \in Seq(Signals)
      /\ DOMAIN toWindow' = 1 .. Len(toWindow) + 1
      /\ \A i \in DOMAIN toWindow : toWindow'[i] = toWindow[i]
      /\ toWindow'[Len(toWindow) + 1] = e
  BY <1>1, <1>2, <1>3, Posting
<1>7. ValuesOK'
  <2>1. HandlerValuesOK' /\ WindowValuesOK'
    BY <1>2 DEF PanelInv, ValuesOK, HandlerValuesOK, WindowValuesOK
  <2>2. QueueValuesOK'
    BY <1>2, <1>6 DEF PanelInv, ValuesOK, QueueValuesOK
  <2> QED
    BY <2>1, <2>2 DEF ValuesOK
<1>8. PlacesOK'
  <2>1. ASSUME NEW d \in Codes
        PROVE  /\ HeldOK(d)' /\ QueuedOK(d)'
               /\ e = Added(d) => ~In(toWindow, e)
    <3>1. Known(d)' <=> Known(d)
      BY <1>2 DEF Known, configWares
    <3>2. In(toWindow', Added(d)) <=> In(toWindow, Added(d)) \/ Added(d) = e
      BY <1>1, <1>2, <1>3, PostingIn
    <3>3. HeldOK(d) /\ QueuedOK(d)
      BY DEF PanelInv, PlacesOK
    <3>4. Added(d).signal = "added"
      BY DEF Added, WareSignal
    <3> QED
      BY <1>2, <1>4, <3>1, <3>2, <3>3, <3>4 DEF HeldOK, QueuedOK
  <2>2. e.signal = "added" => e = Added(e.code)
    BY <1>5 DEF Added
  <2>3. Once(toWindow')
    BY <1>1, <1>2, <1>3, <1>5, <2>1, <2>2, PostingOnce DEF PanelInv, PlacesOK
  <2> QED
    BY <1>2, <2>1, <2>3 DEF PanelInv, PlacesOK, NoWareTwice
<1>9. OneUpload'
  <2>1. ~Asks(e) /\ ~Answers(e)
    BY <1>2 DEF Asks, Answers
  <2>2. UNCHANGED user
    BY <1>2
  <2>3. \A i \in DOMAIN toManager :
            i = 1 \/ (i - 1 \in DOMAIN toManager' /\ toManager'[i - 1] = toManager[i])
    BY <1>2, Taking
  <2>4. \A i \in DOMAIN toWindow' : i \notin DOMAIN toWindow => i = Len(toWindow) + 1
    BY <1>3, <1>6
  <2>5. \A i \in DOMAIN toWindow' : Answers(toWindow'[i]) =>
            i \in DOMAIN toWindow /\ Answers(toWindow[i])
    BY <1>6, <2>1, <2>4
  <2>6. \A i \in DOMAIN toManager' : Asks(toManager'[i]) =>
            i + 1 \in DOMAIN toManager /\ Asks(toManager[i + 1])
    BY <1>2
  <2>7. (\E i \in DOMAIN toManager : Asks(toManager[i])) =>
            \E i \in DOMAIN toManager' : Asks(toManager'[i])
    BY <1>2, <2>1, <2>3
  <2>8. (\E i \in DOMAIN toWindow : Answers(toWindow[i])) =>
            \E i \in DOMAIN toWindow' : Answers(toWindow'[i])
    BY <1>3, <1>6
  <2>9. /\ \A i, j \in DOMAIN toManager' : Asks(toManager'[i]) /\ Asks(toManager'[j]) => i = j
        /\ \A i, j \in DOMAIN toWindow' : Answers(toWindow'[i]) /\ Answers(toWindow'[j]) => i = j
        /\ \A i \in DOMAIN toManager', j \in DOMAIN toWindow' :
              ~(Asks(toManager'[i]) /\ Answers(toWindow'[j]))
    BY <1>2, <2>5, <2>6 DEF PanelInv, OneUpload
  <2>10. user = "loading" <=> \/ \E i \in DOMAIN toManager : Asks(toManager[i])
                             \/ \E i \in DOMAIN toWindow : Answers(toWindow[i])
    BY DEF PanelInv, OneUpload
  <2> QED
    BY <2>2, <2>5, <2>6, <2>7, <2>8, <2>9, <2>10 DEF OneUpload
<1>10. LoadOK'
  BY <1>1, <1>2, PostingLoad DEF PanelInv
<1>11. UploadedOK'
  BY <1>2, <1>3, <1>6 DEF PanelInv, UploadedOK, configWares
<1>12. ShownIsOwn' /\ CurrentIsChosen'
  BY <1>2 DEF PanelInv, ShownIsOwn, CurrentIsChosen, configWares
<1> QED
  BY <1>7, <1>8, <1>9, <1>10, <1>11, <1>12 DEF PanelInv

\* An upload becomes its outcome.
LEMMA UploadWareImageKeeps ==
    ASSUME PanelInv, UploadWareImage
    PROVE  PanelInv'
<1> USE DEF tableVars, windowVars
<1>1. NextForManager({"upload"})
  BY DEF UploadWareImage
<1>2. /\ toManager \in Seq(Signals) /\ toManager # <<>> /\ toManager' = Tail(toManager)
      /\ toManager' \in Seq(Signals)
      /\ Head(toManager) \in Signals /\ Asks(Head(toManager))
      /\ \A i \in DOMAIN toManager' : toManager'[i] = toManager[i + 1]
                                      /\ i + 1 \in DOMAIN toManager /\ i + 1 # 1
      /\ 1 \in DOMAIN toManager /\ Head(toManager) = toManager[1]
      /\ \A x : In(toManager', x) => In(toManager, x)
      /\ Once(toManager')
      /\ UNCHANGED <<tableVars, up, windowVars>>
  BY <1>1, ManagerTakes DEF Asks
<1>3. toWindow \in Seq(Signals)
  BY DEF PanelInv, ValuesOK, QueueValuesOK
<1>4. PICK e \in Signals : /\ Answers(e)
                           /\ e.signal = "uploaded" =>
                                /\ e.index + 1 \in DOMAIN configWares
                                /\ e.code = configWares[e.index + 1]
                           /\ toWindow' = Append(toWindow, e)
  <2> DEFINE index == Head(toManager).index
  <2>1. index \in Nat
    BY <1>2, Kinds DEF Asks
  <2> HIDE DEF index
  <2>2. index \in 0 .. Len(configWares) - 1 => index + 1 \in DOMAIN configWares
    BY <2>1, WarePanelAssumption DEF configWares
  <2>3. \/ toWindow' = Append(toWindow, Missing)
        \/ /\ index \in 0 .. Len(configWares) - 1
           /\ toWindow' \in {Append(toWindow, Uploaded(index)), Append(toWindow, UploadError)}
    BY DEF UploadWareImage, index
  <2> QED
    BY <2>1, <2>2, <2>3, Events DEF Answers
<1>5. /\ toWindow' \in Seq(Signals)
      /\ DOMAIN toWindow' = 1 .. Len(toWindow) + 1
      /\ \A i \in DOMAIN toWindow : toWindow'[i] = toWindow[i]
      /\ toWindow'[Len(toWindow) + 1] = e
  BY <1>3, <1>4, Posting
<1>6. ValuesOK'
  <2>1. HandlerValuesOK' /\ WindowValuesOK'
    BY <1>2 DEF PanelInv, ValuesOK, HandlerValuesOK, WindowValuesOK
  <2>2. QueueValuesOK'
    BY <1>2, <1>5 DEF PanelInv, ValuesOK, QueueValuesOK
  <2> QED
    BY <2>1, <2>2 DEF ValuesOK
<1>7. PlacesOK'
  <2>1. \A c \in Codes : Added(c) # e /\ e.signal # "added"
    BY <1>4 DEF Added, WareSignal, Answers
  <2>2. \A c \in Codes : In(toWindow', Added(c)) => In(toWindow, Added(c))
    BY <1>3, <1>4, <2>1, PostingIn
  <2>3. Once(toWindow')
    <3>1. e.signal # "added"
      BY <1>4 DEF Answers
    <3> QED
      BY <1>3, <1>4, <3>1, PostingOnce DEF PanelInv, PlacesOK
  <2> QED
    BY <1>2, <2>2, <2>3, SamePlaces DEF PanelInv
<1>8. OneUpload'
  <2>1. \A i \in DOMAIN toManager' : ~Asks(toManager'[i])
    BY <1>2 DEF PanelInv, OneUpload
  <2>2. \A i \in DOMAIN toWindow : ~Answers(toWindow[i])
    BY <1>2 DEF PanelInv, OneUpload
  <2>3. user' = "loading"
    BY <1>2 DEF PanelInv, OneUpload
  <2> QED
    BY <1>3, <1>4, <1>5, <2>1, <2>2, <2>3 DEF OneUpload
<1>9. LoadOK'
  <2>1. e.signal # "loaded"
    BY <1>4 DEF Answers
  <2> QED
    BY <1>2, <1>4, <2>1, PostingLoad DEF PanelInv
<1>10. UploadedOK'
  BY <1>3, <1>4, <1>5 DEF PanelInv, UploadedOK, configWares
<1>11. ShownIsOwn' /\ CurrentIsChosen'
  BY <1>2 DEF PanelInv, ShownIsOwn, CurrentIsChosen, configWares
<1> QED
  BY <1>6, <1>7, <1>8, <1>9, <1>10, <1>11 DEF PanelInv

-----------------------------------------------------------------------------
(* The GUI thread.                                                         *)

\* What it takes and what it has left.
LEMMA WindowTakes ==
    ASSUME PanelInv, NEW signals, NextForWindow(signals)
    PROVE  /\ toWindow # <<>> /\ toWindow' = Tail(toWindow)
           /\ toWindow \in Seq(Signals) /\ toWindow' \in Seq(Signals)
           /\ Head(toWindow) \in Signals /\ Head(toWindow).signal \in signals
           /\ \A i \in DOMAIN toWindow' : toWindow'[i] = toWindow[i + 1]
                                          /\ i + 1 \in DOMAIN toWindow /\ i + 1 # 1
           /\ \A i \in DOMAIN toWindow :
                i = 1 \/ (i - 1 \in DOMAIN toWindow' /\ toWindow'[i - 1] = toWindow[i])
           /\ 1 \in DOMAIN toWindow /\ Head(toWindow) = toWindow[1]
           /\ UNCHANGED <<tableVars, up, toManager, picked, uploads>>
<1>1. toWindow \in Seq(Signals) /\ toWindow # <<>>
  BY DEF PanelInv, ValuesOK, QueueValuesOK, NextForWindow
<1>2. /\ Tail(toWindow) \in Seq(Signals)
      /\ Head(toWindow) \in Signals
      /\ 1 \in DOMAIN toWindow /\ Head(toWindow) = toWindow[1]
      /\ \A i \in DOMAIN Tail(toWindow) : Tail(toWindow)[i] = toWindow[i + 1]
                                          /\ i + 1 \in DOMAIN toWindow /\ i + 1 # 1
      /\ \A i \in DOMAIN toWindow :
            i = 1 \/ (i - 1 \in DOMAIN Tail(toWindow) /\ Tail(toWindow)[i - 1] = toWindow[i])
  BY <1>1, Taking
<1> QED
  BY <1>1, <1>2 DEF NextForWindow

\* The signals of wares added are as before, but for the first event.
LEMMA WindowAdds ==
    ASSUME PanelInv, NEW signals, NextForWindow(signals)
    PROVE  /\ \A x : In(toWindow', x) => In(toWindow, x)
           /\ Once(toWindow')
           /\ In(toWindow, Head(toWindow))
           /\ Head(toWindow).signal = "added" => ~In(toWindow', Head(toWindow))
<1>1. /\ toWindow \in Seq(Signals) /\ toWindow # <<>>
      /\ toWindow' = Tail(toWindow)
  BY WindowTakes
<1>2. Once(toWindow)
  BY DEF PanelInv, PlacesOK
<1>3. /\ \A x : In(Tail(toWindow), x) => In(toWindow, x)
      /\ In(toWindow, Head(toWindow))
  BY <1>1, TakingIn, HeadIn
<1>4. /\ Once(Tail(toWindow))
      /\ Head(toWindow).signal = "added" => ~In(Tail(toWindow), Head(toWindow))
  BY <1>1, <1>2, TakingOnce
<1> QED
  BY <1>1, <1>3, <1>4

LEMMA WindowUploaded ==
    ASSUME PanelInv, NEW signals, NextForWindow(signals)
    PROVE  UploadedOK'
  BY WindowTakes DEF PanelInv, UploadedOK, configWares

\* An event that answers no upload leaves the one that does ...
LEMMA TakingNoAnswer ==
    ASSUME PanelInv, NEW signals, NextForWindow(signals),
           ~Answers(Head(toWindow)), user' = user
    PROVE  OneUpload'
<1>1. toManager' = toManager
  BY WindowTakes
<1>2. \A i \in DOMAIN toWindow' : i + 1 \in DOMAIN toWindow /\ toWindow'[i] = toWindow[i + 1]
  BY WindowTakes
<1>3. (\E i \in DOMAIN toWindow : Answers(toWindow[i])) =>
            \E i \in DOMAIN toWindow' : Answers(toWindow'[i])
  BY WindowTakes
<1>4. \A i \in DOMAIN toWindow' : i \in Int
  <2>1. toWindow' \in Seq(Signals)
    BY WindowTakes
  <2>2. DOMAIN toWindow' = 1 .. Len(toWindow')
    BY <2>1
  <2> QED
    BY <2>2
<1>5. \A i, j \in DOMAIN toWindow' : Answers(toWindow'[i]) /\ Answers(toWindow'[j]) => i = j
  <2> SUFFICES ASSUME NEW i \in DOMAIN toWindow', NEW j \in DOMAIN toWindow',
                      Answers(toWindow'[i]), Answers(toWindow'[j])
               PROVE  i = j
    OBVIOUS
  <2>1. i + 1 = j + 1
    BY <1>2 DEF PanelInv, OneUpload
  <2> QED
    BY <1>4, <2>1
<1> QED
  BY <1>1, <1>2, <1>3, <1>5 DEF PanelInv, OneUpload

\* ... and the one that does uncovers the window.
LEMMA TakingAnswer ==
    ASSUME PanelInv, NEW signals, NextForWindow(signals),
           Answers(Head(toWindow)), user' = "free"
    PROVE  OneUpload'
<1>1. toManager' = toManager
  BY WindowTakes
<1>2. \A i \in DOMAIN toWindow' : ~Answers(toWindow'[i])
  BY WindowTakes DEF PanelInv, OneUpload
<1>3. \A i \in DOMAIN toManager : ~Asks(toManager[i])
  BY WindowTakes DEF PanelInv, OneUpload
<1> QED
  BY <1>1, <1>2, <1>3 DEF OneUpload

Rows == [code : Codes, shows : Codes]

LEMMA RowOf ==
    ASSUME NEW S, NEW rows \in Seq(S), NEW i \in DOMAIN rows
    PROVE  rows[i] \in S
  OBVIOUS

\* What a change of a row's texts leaves as it is.
LEMMA Updating ==
    ASSUME NEW rows \in Seq(Rows), NEW i, NEW c \in Codes,
           NEW new, new = UpdateItem(rows, i, c)
    PROVE  /\ new \in Seq(Rows)
           /\ Len(new) = Len(rows)
           /\ DOMAIN new = DOMAIN rows
           /\ \A j \in DOMAIN rows :
                /\ new[j].code = rows[j].code
                /\ new[j].shows = IF j = i THEN c ELSE rows[j].shows
<1>1. \A j \in DOMAIN rows : rows[j] \in Rows
  BY RowOf
<1>2. CASE i \in DOMAIN rows
  <2> DEFINE row == [rows[i] EXCEPT !.shows = c]
  <2>1. row \in Rows /\ row.code = rows[i].code /\ row.shows = c
    BY <1>1, <1>2 DEF Rows
  <2>2. new = [rows EXCEPT ![i] = row]
    BY <1>2 DEF UpdateItem
  <2> HIDE DEF row
  <2>3. /\ DOMAIN new = DOMAIN rows
        /\ \A j \in DOMAIN rows : new[j] = IF j = i THEN row ELSE rows[j]
    BY <2>2
  <2>4. i \in 1 .. Len(rows)
    BY <1>2
  <2>5. new \in Seq(Rows) /\ Len(new) = Len(rows)
    BY <2>1, <2>2, <2>4, ExceptSeq
  <2>6. \A j \in DOMAIN rows :
            /\ new[j].code = rows[j].code
            /\ new[j].shows = IF j = i THEN c ELSE rows[j].shows
    BY <2>1, <2>3
  <2> QED
    BY <2>3, <2>5, <2>6
<1>3. CASE i \notin DOMAIN rows
  <2>1. new = rows
    BY <1>3 DEF UpdateItem
  <2> QED
    BY <1>3, <2>1
<1> QED
  BY <1>2, <1>3

\* With the same wares in the list, all places are as they were.
LEMMA SameCodes ==
    ASSUME PanelInv, NEW signals, NextForWindow(signals), "loaded" \notin signals,
           Len(panel') = Len(panel), DOMAIN panel' = DOMAIN panel,
           \A j \in DOMAIN panel : panel'[j].code = panel[j].code
    PROVE  PlacesOK' /\ LoadOK'
<1>1. PlacesOK'
  <2>1. \A d \in Codes : Known(d)' <=> Known(d)
    BY DEF Known, configWares
  <2>2. UNCHANGED <<table, held, toManager>> /\ Once(toWindow')
        /\ \A x : In(toWindow', x) => In(toWindow, x)
    BY WindowTakes, WindowAdds DEF tableVars
  <2>3. ASSUME NEW d \in Codes
        PROVE  HeldOK(d)' /\ QueuedOK(d)'
    BY <2>1, <2>2 DEF PanelInv, PlacesOK, HeldOK, QueuedOK
  <2> QED
    BY <2>2, <2>3 DEF PanelInv, PlacesOK, NoWareTwice
<1>2. LoadOK'
  <2>1. /\ ~Pending' /\ ~Pending
        /\ \A i \in DOMAIN toWindow' : toWindow'[i].signal # "loaded"
    BY WindowTakes, TakingLoad DEF PanelInv
  <2>2. panel \in Seq([code : Codes, shows : Codes]) /\ Listed \in Seq(Codes)
    BY WarePanelAssumption DEF PanelInv, ValuesOK, WindowValuesOK
  <2>3. \A i \in DOMAIN configWares : Len(panel) >= Len(configWares) =>
            Len(panel) - Len(configWares) + i \in DOMAIN panel
    BY <2>2 DEF configWares
  <2> QED
    BY <2>1, <2>3 DEF PanelInv, LoadOK, configWares
<1> QED
  BY <1>1, <1>2

\* The list is the one ConfigManager read.
LEMMA OnLoadedKeeps ==
    ASSUME PanelInv, OnLoaded
    PROVE  PanelInv'
<1>1. /\ NextForWindow({"loaded"})
      /\ panel' = [i \in DOMAIN configWares |-> Row(configWares[i])]
      /\ unlaid' = (panel' # <<>>)
      /\ UNCHANGED <<current, user>>
  BY DEF OnLoaded
<1>2. /\ Listed \in Seq(Codes) /\ configWares = Listed
      /\ \A i, j \in DOMAIN Listed : i # j => Listed[i] # Listed[j]
  BY WarePanelAssumption DEF configWares
<1>3. /\ panel' \in Seq([code : Codes, shows : Codes])
      /\ Len(panel') = Len(Listed) /\ DOMAIN panel' = DOMAIN Listed
      /\ \A i \in DOMAIN Listed : panel'[i].code = Listed[i] /\ panel'[i].shows = Listed[i]
  <2>1. Len(Listed) \in Nat /\ DOMAIN Listed = 1 .. Len(Listed)
    BY <1>2
  <2>2. panel' = [i \in 1 .. Len(Listed) |-> Row(Listed[i])]
    BY <1>1, <1>2, <2>1
  <2>3. \A i \in 1 .. Len(Listed) :
            /\ Row(Listed[i]) \in [code : Codes, shows : Codes]
            /\ Row(Listed[i]).code = Listed[i] /\ Row(Listed[i]).shows = Listed[i]
    BY <1>2, <2>1 DEF Row
  <2>4. panel' \in Seq([code : Codes, shows : Codes])
    BY <2>1, <2>2, <2>3, IsASeq
  <2>5. DOMAIN panel' = 1 .. Len(Listed)
        /\ \A i \in 1 .. Len(Listed) : panel'[i] = Row(Listed[i])
    BY <2>2
  <2>6. Len(panel') = Len(Listed)
    BY <2>1, <2>4, <2>5, LenProperties
  <2> QED
    BY <2>1, <2>3, <2>4, <2>5, <2>6
<1>4. /\ UNCHANGED <<tableVars, up, toManager, picked, uploads>>
      /\ toWindow \in Seq(Signals) /\ toWindow' \in Seq(Signals)
      /\ toWindow # <<>> /\ toWindow' = Tail(toWindow)
      /\ Head(toWindow).signal = "loaded"
  BY <1>1, WindowTakes
<1>5. ValuesOK'
  <2>1. HandlerValuesOK' /\ QueueValuesOK'
    BY <1>4 DEF PanelInv, ValuesOK, HandlerValuesOK, QueueValuesOK, tableVars
  <2>2. WindowValuesOK'
    BY <1>1, <1>3, <1>4 DEF PanelInv, ValuesOK, WindowValuesOK
  <2> QED
    BY <2>1, <2>2 DEF ValuesOK
<1>6. OneUpload'
  BY <1>1, <1>4, TakingNoAnswer DEF Answers
<1>7. PlacesOK'
  <2>1. \A d \in Codes : Known(d)' => Known(d)
    BY <1>2, <1>3 DEF Known, configWares
  <2>2. /\ Once(toWindow')
        /\ \A x : In(toWindow', x) => In(toWindow, x)
    BY <1>1, WindowAdds
  <2>3. ASSUME NEW d \in Codes
        PROVE  HeldOK(d)' /\ QueuedOK(d)'
    BY <1>4, <2>1, <2>2 DEF PanelInv, PlacesOK, HeldOK, QueuedOK, tableVars
  <2> QED
    BY <1>2, <1>3, <1>4, <2>2, <2>3 DEF PanelInv, PlacesOK, NoWareTwice
<1>8. LoadOK'
  <2>1. ~Pending' /\ \A i \in DOMAIN toWindow' : toWindow'[i].signal # "loaded"
    BY <1>4, TakingLoad DEF PanelInv
  <2>2. \A i \in DOMAIN Listed : Len(Listed) - Len(Listed) + i = i
    BY <1>2
  <2> QED
    BY <1>2, <1>3, <2>1, <2>2 DEF LoadOK, configWares
<1>9. UploadedOK'
  BY <1>1, WindowUploaded
<1>10. ShownIsOwn' /\ CurrentIsChosen'
  BY <1>1, <1>3 DEF ShownIsOwn, CurrentIsChosen
<1> QED
  BY <1>5, <1>6, <1>7, <1>8, <1>9, <1>10 DEF PanelInv

\* A ware that was added comes into the list from the queue.
LEMMA OnAddedKeeps ==
    ASSUME PanelInv, OnAdded
    PROVE  PanelInv'
<1> DEFINE e == Head(toWindow)
           c == e.code
<1>1. /\ NextForWindow({"added"})
      /\ panel' = <<Row(c)>> \o panel
      /\ unlaid' = TRUE
      /\ UNCHANGED <<current, user>>
  BY DEF OnAdded
<1>2. /\ UNCHANGED <<tableVars, up, toManager, picked, uploads>>
      /\ toWindow \in Seq(Signals) /\ toWindow' \in Seq(Signals)
      /\ toWindow # <<>> /\ toWindow' = Tail(toWindow)
      /\ e \in Signals /\ e.signal = "added"
  BY <1>1, WindowTakes
<1>3. c \in Codes /\ e = Added(c)
  BY <1>2, Kinds DEF Added
<1>4. panel \in Seq([code : Codes, shows : Codes])
  BY DEF PanelInv, ValuesOK, WindowValuesOK
<1> HIDE DEF e, c
<1>5. /\ panel' \in Seq([code : Codes, shows : Codes])
      /\ Len(panel') = Len(panel) + 1 /\ DOMAIN panel' = 1 .. Len(panel) + 1
      /\ panel'[1] = Row(c)
      /\ \A i \in DOMAIN panel : panel'[i + 1] = panel[i] /\ i + 1 \in DOMAIN panel'
      /\ \A i \in DOMAIN panel' : i = 1 \/ (i - 1 \in DOMAIN panel /\ panel'[i] = panel[i - 1])
  <2>1. Row(c) \in [code : Codes, shows : Codes]
    BY <1>3 DEF Row
  <2>2. <<Row(c)>> \in Seq([code : Codes, shows : Codes]) /\ Len(<<Row(c)>>) = 1
    BY <2>1
  <2> QED
    BY <1>1, <1>4, <2>2, ConcatProperties
<1>6. Row(c).code = c
  BY DEF Row
<1>7. ValuesOK'
  <2>1. HandlerValuesOK' /\ QueueValuesOK'
    BY <1>2 DEF PanelInv, ValuesOK, HandlerValuesOK, QueueValuesOK, tableVars
  <2>2. WindowValuesOK'
    BY <1>1, <1>2, <1>5 DEF PanelInv, ValuesOK, WindowValuesOK
  <2> QED
    BY <2>1, <2>2 DEF ValuesOK
<1>8. OneUpload'
  BY <1>1, <1>2, TakingNoAnswer DEF Answers, e
<1>9. PlacesOK'
  <2>1. /\ Once(toWindow')
        /\ \A x : In(toWindow', x) => In(toWindow, x)
        /\ In(toWindow, Added(c)) /\ ~In(toWindow', Added(c))
    BY <1>1, <1>2, <1>3, WindowAdds DEF e
  <2>2. \A d : Known(d)' <=> Known(d) \/ d = c
    <3>1. ASSUME NEW d, \E i \in DOMAIN panel : panel[i].code = d
          PROVE  \E i \in DOMAIN panel' : panel'[i].code = d
      BY <1>5, <3>1
    <3>2. ASSUME NEW i \in DOMAIN panel'
          PROVE  panel'[i].code = c \/ \E j \in DOMAIN panel : panel[j].code = panel'[i].code
      BY <1>5, <1>6, <3>2
    <3>3. 1 \in DOMAIN panel' /\ panel'[1].code = c
      BY <1>4, <1>5, <1>6
    <3> QED
      BY <3>1, <3>2, <3>3 DEF Known, configWares
  <2>3. c \in table /\ ~Known(c) /\ ~In(toManager, Added(c))
        /\ \A w \in Workers : held[w] # <<Added(c)>>
    BY <1>3, <2>1 DEF PanelInv, PlacesOK, HeldOK, QueuedOK
  <2>4. ASSUME NEW d \in Codes
        PROVE  HeldOK(d)' /\ QueuedOK(d)'
    <3>1. CASE d = c
      BY <1>2, <2>1, <2>3, <3>1 DEF HeldOK, QueuedOK, tableVars
    <3>2. CASE d # c
      BY <1>2, <2>1, <2>2, <3>2 DEF PanelInv, PlacesOK, HeldOK, QueuedOK, tableVars
    <3> QED
      BY <3>1, <3>2
  <2>5. NoWareTwice'
    <3>1. \A i \in DOMAIN panel : panel[i].code # c
      BY <2>3 DEF Known
    <3> SUFFICES ASSUME NEW i \in DOMAIN panel', NEW j \in DOMAIN panel', i # j,
                        panel'[i].code = panel'[j].code
                 PROVE  FALSE
      BY DEF NoWareTwice
    <3>2. i # 1 /\ j # 1
      BY <1>5, <1>6, <3>1
    <3>3. i - 1 \in DOMAIN panel /\ j - 1 \in DOMAIN panel /\ i - 1 # j - 1
      BY <1>5, <3>2
    <3> QED
      BY <1>5, <3>2, <3>3 DEF PanelInv, PlacesOK, NoWareTwice
  <2> QED
    BY <1>2, <2>1, <2>4, <2>5 DEF PanelInv, PlacesOK
<1>10. LoadOK' /\ Len(panel') > Len(configWares)
  <2>1. /\ ~Pending' /\ ~Pending
        /\ \A i \in DOMAIN toWindow' : toWindow'[i].signal # "loaded"
    BY <1>2, TakingLoad DEF PanelInv, e
  <2>2. Listed \in Seq(Codes)
    BY WarePanelAssumption
  <2>3. /\ Len(panel) >= Len(configWares)
        /\ \A i \in DOMAIN configWares :
              panel[Len(panel) - Len(configWares) + i].code = configWares[i]
    BY <2>1 DEF PanelInv, LoadOK
  <2>4. ASSUME NEW i \in DOMAIN configWares
        PROVE  panel'[Len(panel') - Len(configWares) + i].code = configWares[i]
    <3>1. Len(panel) - Len(configWares) + i \in DOMAIN panel
      BY <1>4, <2>2, <2>3, <2>4 DEF configWares
    <3>2. Len(panel') - Len(configWares) + i = (Len(panel) - Len(configWares) + i) + 1
      BY <1>4, <1>5, <2>2, <2>4 DEF configWares
    <3> QED
      BY <1>5, <2>3, <3>1, <3>2
  <2>5. Len(panel') > Len(configWares)
    BY <1>4, <1>5, <2>2, <2>3 DEF configWares
  <2>6. Len(panel') >= Len(configWares)
    BY <1>4, <1>5, <2>2, <2>3 DEF configWares
  <2> QED
    BY <2>1, <2>4, <2>5, <2>6 DEF LoadOK, configWares
<1>11. UploadedOK'
  BY <1>1, WindowUploaded
<1>12. ShownIsOwn' /\ CurrentIsChosen'
  <2>1. Len(panel') # Len(configWares)
    BY <1>5, <1>10, <1>4, WarePanelAssumption DEF configWares
  <2> QED
    BY <1>1, <2>1 DEF ShownIsOwn, CurrentIsChosen, configWares
<1> QED
  BY <1>7, <1>8, <1>9, <1>10, <1>11, <1>12 DEF PanelInv

\* An update changes the texts of the row of its ware.
LEMMA OnUpdatedKeeps ==
    ASSUME PanelInv, OnUpdated
    PROVE  PanelInv'
<1> DEFINE c == Head(toWindow).code
<1>1. /\ NextForWindow({"updated"})
      /\ UNCHANGED <<unlaid, current, user>>
  BY DEF OnUpdated
<1>2. /\ UNCHANGED <<tableVars, up, toManager, picked, uploads>>
      /\ toWindow' \in Seq(Signals)
      /\ Head(toWindow) \in Signals /\ Head(toWindow).signal = "updated"
  BY <1>1, WindowTakes
<1>3. c \in Codes
  BY <1>2, Kinds
<1>4. panel \in Seq(Rows)
  BY DEF PanelInv, ValuesOK, WindowValuesOK, Rows
<1>5. UNCHANGED panel
      \/ \E i \in DOMAIN panel : panel[i].code = c /\ panel' = UpdateItem(panel, i, c)
  BY DEF OnUpdated
<1> HIDE DEF c
<1>6. /\ panel' \in Seq(Rows)
      /\ Len(panel') = Len(panel) /\ DOMAIN panel' = DOMAIN panel
      /\ \A j \in DOMAIN panel : /\ panel'[j].code = panel[j].code
                                 /\ panel[j].shows = panel[j].code =>
                                        panel'[j].shows = panel'[j].code
  <2>1. CASE UNCHANGED panel
    BY <1>4, <2>1
  <2>2. CASE \E i \in DOMAIN panel : panel[i].code = c /\ panel' = UpdateItem(panel, i, c)
    <3>1. PICK i \in DOMAIN panel : panel[i].code = c /\ panel' = UpdateItem(panel, i, c)
      BY <2>2
    <3>2. /\ panel' \in Seq(Rows)
          /\ Len(panel') = Len(panel) /\ DOMAIN panel' = DOMAIN panel
          /\ \A j \in DOMAIN panel :
                /\ panel'[j].code = panel[j].code
                /\ panel'[j].shows = IF j = i THEN c ELSE panel[j].shows
      BY <1>3, <1>4, <3>1, Updating
    <3> QED
      BY <3>1, <3>2
  <2> QED
    BY <1>5, <2>1, <2>2
<1>7. ValuesOK'
  <2>1. HandlerValuesOK' /\ QueueValuesOK'
    BY <1>2 DEF PanelInv, ValuesOK, HandlerValuesOK, QueueValuesOK, tableVars
  <2>2. WindowValuesOK'
    BY <1>1, <1>2, <1>6 DEF PanelInv, ValuesOK, WindowValuesOK, Rows
  <2> QED
    BY <2>1, <2>2 DEF ValuesOK
<1>8. OneUpload'
  BY <1>1, <1>2, TakingNoAnswer DEF Answers
<1>9. PlacesOK' /\ LoadOK'
  BY <1>1, <1>6, SameCodes
<1>10. UploadedOK'
  BY <1>1, WindowUploaded
<1>11. ShownIsOwn'
  BY <1>6 DEF PanelInv, ShownIsOwn, configWares
<1>12. CurrentIsChosen'
  <2>1. panel' # <<>> => panel # <<>>
    BY <1>4, <1>6
  <2>2. current.index + 1 \in DOMAIN panel =>
            panel'[current.index + 1].code = panel[current.index + 1].code
    BY <1>6
  <2> QED
    BY <1>1, <1>6, <2>1, <2>2 DEF PanelInv, CurrentIsChosen
<1> QED
  BY <1>7, <1>8, <1>9, <1>10, <1>11, <1>12 DEF PanelInv

\* The outcome of an upload is shown in the row of its index, which is chosen.
LEMMA OnUploadedKeeps ==
    ASSUME PanelInv, OnUploaded
    PROVE  PanelInv'
<1> DEFINE e == Head(toWindow)
<1>1. /\ NextForWindow({"uploaded"})
      /\ user' = "free"
      /\ panel' = UpdateItem(panel, e.index + 1, e.code)
      /\ current' = InfoOf(panel, e.index)
      /\ UNCHANGED unlaid
  BY DEF OnUploaded
<1>2. /\ UNCHANGED <<tableVars, up, toManager, picked, uploads>>
      /\ toWindow \in Seq(Signals) /\ toWindow' \in Seq(Signals)
      /\ toWindow # <<>> /\ toWindow' = Tail(toWindow)
      /\ e \in Signals /\ e.signal = "uploaded"
      /\ 1 \in DOMAIN toWindow /\ e = toWindow[1]
  BY <1>1, WindowTakes
<1>3. e.index \in Nat /\ e.code \in Codes
  BY <1>2, Kinds
<1>4. e.index + 1 \in DOMAIN configWares /\ e.code = configWares[e.index + 1]
  BY <1>2 DEF PanelInv, UploadedOK
<1>5. panel \in Seq(Rows) /\ Listed \in Seq(Codes)
  BY WarePanelAssumption DEF PanelInv, ValuesOK, WindowValuesOK, Rows
<1>6. ~Pending
  BY <1>2, TakingLoad DEF PanelInv
<1> HIDE DEF e
<1>7. /\ panel' \in Seq(Rows)
      /\ Len(panel') = Len(panel) /\ DOMAIN panel' = DOMAIN panel
      /\ \A j \in DOMAIN panel :
            /\ panel'[j].code = panel[j].code
            /\ panel'[j].shows = IF j = e.index + 1 THEN e.code ELSE panel[j].shows
  <2>1. panel' = UpdateItem(panel, e.index + 1, e.code)
    BY <1>1 DEF e
  <2> DEFINE n == e.index + 1
  <2> HIDE DEF n
  <2>2. panel' = UpdateItem(panel, n, e.code)
    BY <2>1 DEF n
  <2>3. /\ panel' \in Seq(Rows)
        /\ Len(panel') = Len(panel) /\ DOMAIN panel' = DOMAIN panel
        /\ \A j \in DOMAIN panel :
            /\ panel'[j].code = panel[j].code
            /\ panel'[j].shows = IF j = n THEN e.code ELSE panel[j].shows
    BY <1>3, <1>5, <2>2, Updating
  <2> QED
    BY <2>3 DEF n
<1>8. e.index + 1 \in DOMAIN panel
  BY <1>3, <1>4, <1>5, <1>6 DEF PanelInv, LoadOK, configWares
<1>9. current' = [index |-> e.index, code |-> panel[e.index + 1].code]
  BY <1>1, <1>8 DEF InfoOf, e
<1>10. ValuesOK'
  <2>1. HandlerValuesOK' /\ QueueValuesOK'
    BY <1>2 DEF PanelInv, ValuesOK, HandlerValuesOK, QueueValuesOK, tableVars
  <2>2. current' \in [index : Nat, code : CodesOrNobody]
    <3>1. panel[e.index + 1] \in Rows
      BY <1>5, <1>8, RowOf
    <3>2. panel[e.index + 1].code \in CodesOrNobody
      BY <3>1 DEF CodesOrNobody, Rows
    <3> QED
      BY <1>3, <1>9, <3>2
  <2>3. WindowValuesOK'
    BY <1>1, <1>2, <1>7, <2>2 DEF PanelInv, ValuesOK, WindowValuesOK, Rows
  <2> QED
    BY <2>1, <2>3 DEF ValuesOK
<1>11. OneUpload'
  BY <1>1, <1>2, TakingAnswer DEF Answers, e
<1>12. PlacesOK' /\ LoadOK'
  BY <1>1, <1>7, SameCodes
<1>13. UploadedOK'
  BY <1>1, WindowUploaded
<1>14. ShownIsOwn'
  <2> SUFFICES ASSUME Len(panel) = Len(configWares), NEW i \in DOMAIN panel
               PROVE  panel'[i].shows = panel'[i].code
    BY <1>7 DEF ShownIsOwn, configWares
  <2>1. panel[i].shows = panel[i].code
    BY DEF PanelInv, ShownIsOwn
  <2>2. i = e.index + 1 => panel[i].code = e.code
    <3>1. Len(panel) - Len(configWares) + i = i
      BY <1>5 DEF configWares
    <3>2. i \in DOMAIN configWares
      BY <1>5 DEF configWares
    <3> QED
      BY <1>4, <1>6, <3>1, <3>2 DEF PanelInv, LoadOK
  <2> QED
    BY <1>7, <2>1, <2>2
<1>15. CurrentIsChosen'
  BY <1>7, <1>8, <1>9 DEF CurrentIsChosen
<1> QED
  BY <1>10, <1>11, <1>12, <1>13, <1>14, <1>15 DEF PanelInv

\* A failed upload uncovers the window.
LEMMA OnUploadErrorKeeps ==
    ASSUME PanelInv, OnUploadError
    PROVE  PanelInv'
<1>1. /\ NextForWindow({"error", "missing"})
      /\ user' = "free"
      /\ UNCHANGED <<panel, unlaid, current>>
  BY DEF OnUploadError
<1>2. /\ UNCHANGED <<tableVars, up, toManager, picked, uploads>>
      /\ toWindow' \in Seq(Signals)
      /\ Head(toWindow).signal \in {"error", "missing"}
  BY <1>1, WindowTakes
<1>3. ValuesOK'
  <2>1. HandlerValuesOK' /\ QueueValuesOK'
    BY <1>2 DEF PanelInv, ValuesOK, HandlerValuesOK, QueueValuesOK, tableVars
  <2>2. WindowValuesOK'
    BY <1>1, <1>2 DEF PanelInv, ValuesOK, WindowValuesOK
  <2> QED
    BY <2>1, <2>2 DEF ValuesOK
<1>4. OneUpload'
  BY <1>1, <1>2, TakingAnswer DEF Answers
<1>5. PlacesOK' /\ LoadOK'
  BY <1>1, SameCodes
<1>6. UploadedOK'
  BY <1>1, WindowUploaded
<1>7. ShownIsOwn' /\ CurrentIsChosen'
  BY <1>1 DEF PanelInv, ShownIsOwn, CurrentIsChosen, configWares
<1> QED
  BY <1>3, <1>4, <1>5, <1>6, <1>7 DEF PanelInv

-----------------------------------------------------------------------------
(* The user and the list view.                                             *)

\* A step that chooses a row or opens and closes the dialog.
LEMMA ChoiceKeeps ==
    ASSUME PanelInv,
           UNCHANGED <<tableVars, up, toManager, toWindow, panel, uploads>>,
           unlaid' \in BOOLEAN, current' \in [index : Nat, code : CodesOrNobody],
           picked' \in CodesOrNobody, user' \in {"free", "dialog", "loading"},
           user' = "loading" <=> user = "loading",
           CurrentIsChosen'
    PROVE  PanelInv'
<1> USE DEF tableVars
<1>1. ValuesOK'
  BY DEF PanelInv, ValuesOK, HandlerValuesOK, QueueValuesOK, WindowValuesOK
<1>2. OneUpload'
  BY DEF PanelInv, OneUpload
<1>3. PlacesOK'
  BY SamePlaces DEF PanelInv, PlacesOK
<1>4. LoadOK' /\ UploadedOK' /\ ShownIsOwn'
  BY DEF PanelInv, LoadOK, Pending, UploadedOK, ShownIsOwn, configWares
<1> QED
  BY <1>1, <1>2, <1>3, <1>4 DEF PanelInv

\* The row that is chosen is described.
LEMMA Choosing ==
    ASSUME PanelInv, NEW n \in Nat, current' = InfoOf(panel, n), UNCHANGED panel,
           panel # <<>> => n + 1 \in DOMAIN panel
    PROVE  CurrentIsChosen' /\ current' \in [index : Nat, code : CodesOrNobody]
<1>1. panel \in Seq([code : Codes, shows : Codes])
  BY DEF PanelInv, ValuesOK, WindowValuesOK
<1>2. (IF n + 1 \in DOMAIN panel THEN panel[n + 1].code ELSE Nobody) \in CodesOrNobody
  <2>1. \A i \in DOMAIN panel : panel[i] \in [code : Codes, shows : Codes]
    BY <1>1, RowOf
  <2>2. \A i \in DOMAIN panel : panel[i].code \in Codes
    BY <2>1
  <2> QED
    BY <2>2 DEF CodesOrNobody
<1> QED
  BY <1>2 DEF InfoOf, CurrentIsChosen

LEMMA SelectFirstKeeps ==
    ASSUME PanelInv, SelectFirst
    PROVE  PanelInv'
<1>1. panel # <<>> => 0 + 1 \in DOMAIN panel
  BY DEF PanelInv, ValuesOK, WindowValuesOK
<1>2. CurrentIsChosen' /\ current' \in [index : Nat, code : CodesOrNobody]
  BY <1>1, Choosing DEF SelectFirst
<1> QED
  BY <1>2, ChoiceKeeps DEF SelectFirst, PanelInv, ValuesOK, WindowValuesOK

LEMMA ClickKeeps ==
    ASSUME PanelInv, NEW i \in DOMAIN panel, Click(i)
    PROVE  PanelInv'
<1>1. i - 1 \in Nat /\ (i - 1) + 1 \in DOMAIN panel
  BY DEF PanelInv, ValuesOK, WindowValuesOK
<1>2. CurrentIsChosen' /\ current' \in [index : Nat, code : CodesOrNobody]
  BY <1>1, Choosing DEF Click
<1> QED
  BY <1>2, ChoiceKeeps DEF Click, PanelInv, ValuesOK, WindowValuesOK

LEMMA DialogKeeps ==
    ASSUME PanelInv, OpenDialog \/ CancelDialog
    PROVE  PanelInv'
<1>1. /\ UNCHANGED <<tableVars, up, toManager, toWindow, panel, uploads, unlaid, current>>
      /\ user # "loading" /\ user' \in {"free", "dialog"}
      /\ picked' \in {picked, current.code}
  BY DEF OpenDialog, CancelDialog
<1>2. CurrentIsChosen'
  BY <1>1 DEF PanelInv, CurrentIsChosen
<1>3. current.code \in CodesOrNobody /\ picked \in CodesOrNobody
  BY DEF PanelInv, ValuesOK, WindowValuesOK
<1> QED
  BY <1>1, <1>2, <1>3, ChoiceKeeps DEF PanelInv, ValuesOK, WindowValuesOK

\* An upload is posted, and the window is covered.
LEMMA AcceptDialogKeeps ==
    ASSUME PanelInv, AcceptDialog
    PROVE  PanelInv'
<1> USE DEF tableVars
<1> DEFINE e == Upload(current.index)
<1>1. /\ user = "dialog" /\ user' = "loading" /\ uploads' = uploads + 1
      /\ toManager' = Append(toManager, e)
      /\ UNCHANGED <<tableVars, up, toWindow, panel, unlaid, current, picked>>
  BY DEF AcceptDialog
<1>2. e \in Signals /\ e.signal = "upload"
  BY Events DEF PanelInv, ValuesOK, WindowValuesOK
<1>3. toManager \in Seq(Signals)
  BY DEF PanelInv, ValuesOK, QueueValuesOK
<1> HIDE DEF e
<1>4. /\ toManager' \in Seq(Signals)
      /\ DOMAIN toManager' = 1 .. Len(toManager) + 1
      /\ \A i \in DOMAIN toManager : toManager'[i] = toManager[i]
      /\ toManager'[Len(toManager) + 1] = e
  BY <1>1, <1>2, <1>3, Posting
<1>5. ValuesOK'
  <2>1. HandlerValuesOK' /\ QueueValuesOK'
    BY <1>1, <1>4 DEF PanelInv, ValuesOK, HandlerValuesOK, QueueValuesOK
  <2>2. WindowValuesOK'
    BY <1>1 DEF PanelInv, ValuesOK, WindowValuesOK
  <2> QED
    BY <2>1, <2>2 DEF ValuesOK
<1>6. OneUpload'
  <2>1. /\ \A i \in DOMAIN toManager : ~Asks(toManager[i])
        /\ \A i \in DOMAIN toWindow : ~Answers(toWindow[i])
    BY <1>1 DEF PanelInv, OneUpload
  <2>2. Asks(e)
    BY <1>2 DEF Asks
  <2> QED
    BY <1>1, <1>3, <1>4, <2>1, <2>2 DEF OneUpload
<1>7. PlacesOK'
  <2>1. \A c \in Codes : Added(c) # e
    BY <1>2 DEF Added, WareSignal
  <2>2. \A c \in Codes : In(toManager', Added(c)) => In(toManager, Added(c))
    BY <1>1, <1>2, <1>3, <2>1, PostingIn
  <2>3. Once(toManager')
    BY <1>1, <1>2, <1>3, PostingOnce DEF PanelInv, PlacesOK
  <2>4. Once(toWindow') /\ \A c \in Codes : In(toWindow', Added(c)) => In(toWindow, Added(c))
    BY <1>1 DEF PanelInv, PlacesOK
  <2> QED
    BY <1>1, <2>2, <2>3, <2>4, SamePlaces DEF PanelInv
<1>8. LoadOK' /\ UploadedOK'
  BY <1>1 DEF PanelInv, LoadOK, Pending, UploadedOK, configWares
<1>9. ShownIsOwn' /\ CurrentIsChosen'
  BY <1>1 DEF PanelInv, ShownIsOwn, CurrentIsChosen, configWares
<1> QED
  BY <1>5, <1>6, <1>7, <1>8, <1>9 DEF PanelInv

-----------------------------------------------------------------------------
(* From the start, and at every step.                                      *)

LEMMA PanelInvInit == Init => PanelInv
<1> SUFFICES ASSUME Init PROVE PanelInv
  OBVIOUS
<1>1. /\ table = {Listed[i] : i \in DOMAIN Listed}
      /\ held = [w \in Workers |-> <<>>]
      /\ up \in BOOLEAN
      /\ toManager = <<>> /\ toWindow = <<[signal |-> "loaded"]>>
      /\ panel = <<>> /\ unlaid = FALSE /\ current = NothingChosen
      /\ user = "free" /\ picked = Nobody /\ edits = 0 /\ uploads = 0
  BY WarePanelAssumption DEF Init
<1>2. /\ Listed \in Seq(Codes)
      /\ \A i \in DOMAIN Listed : Listed[i] \in Codes
  BY WarePanelAssumption
<1>3. /\ DOMAIN toManager = {} /\ DOMAIN panel = {} /\ DOMAIN toWindow = {1}
      /\ toWindow[1].signal = "loaded" /\ Head(toWindow) = toWindow[1]
      /\ toManager \in Seq(Signals) /\ toWindow \in Seq(Signals)
      /\ panel \in Seq([code : Codes, shows : Codes]) /\ toWindow # <<>>
  <2>1. [signal |-> "loaded"] \in Signals
    BY Events
  <2>2. <<[signal |-> "loaded"]>> \in Seq(Signals)
    BY <2>1
  <2> QED
    BY <1>1, <2>2
<1>4. ValuesOK
  <2>1. HandlerValuesOK
    BY <1>1, <1>2 DEF HandlerValuesOK, Announcements
  <2>2. QueueValuesOK
    BY <1>1, <1>3 DEF QueueValuesOK
  <2>3. WindowValuesOK
    BY <1>1, <1>3 DEF WindowValuesOK, NothingChosen, CodesOrNobody
  <2> QED
    BY <2>1, <2>2, <2>3 DEF ValuesOK
<1>5. OneUpload
  BY <1>1, <1>3 DEF OneUpload, Asks, Answers
<1>6. PlacesOK
  <2>1. \A c \in Codes : /\ ~In(toManager, Added(c)) /\ ~In(toWindow, Added(c))
                         /\ \A w \in Workers : held[w] # <<Added(c)>>
    BY <1>1, <1>3 DEF In, Added, WareSignal
  <2>2. \A c \in Codes : Known(c) => c \in table
    BY <1>1, <1>3 DEF Known, configWares
  <2>3. Once(toManager) /\ Once(toWindow) /\ NoWareTwice
    BY <1>3 DEF Once, NoWareTwice
  <2> QED
    BY <2>1, <2>2, <2>3 DEF PlacesOK, HeldOK, QueuedOK
<1>7. LoadOK
  BY <1>1, <1>3 DEF LoadOK, Pending
<1>8. UploadedOK /\ ShownIsOwn /\ CurrentIsChosen
  BY <1>1, <1>3 DEF UploadedOK, ShownIsOwn, CurrentIsChosen
<1> QED
  BY <1>4, <1>5, <1>6, <1>7, <1>8 DEF PanelInv

LEMMA PanelInvStutter ==
    ASSUME PanelInv, UNCHANGED vars
    PROVE  PanelInv'
<1>1. UNCHANGED <<table, held, edits, up, toManager, toWindow, panel, unlaid, current,
                  user, picked, uploads>>
  BY DEF vars, tableVars, windowVars
<1>2. ValuesOK'
  BY <1>1 DEF PanelInv, ValuesOK, HandlerValuesOK, QueueValuesOK, WindowValuesOK
<1>3. OneUpload'
  BY <1>1 DEF PanelInv, OneUpload
<1>4. PlacesOK'
  BY <1>1, SamePlaces DEF PanelInv, PlacesOK
<1>5. LoadOK' /\ UploadedOK' /\ ShownIsOwn' /\ CurrentIsChosen'
  BY <1>1 DEF PanelInv, LoadOK, Pending, UploadedOK, ShownIsOwn, CurrentIsChosen, configWares
<1> QED
  BY <1>2, <1>3, <1>4, <1>5 DEF PanelInv

LEMMA PanelInvNext == PanelInv /\ [Next]_vars => PanelInv'
<1> SUFFICES ASSUME PanelInv, [Next]_vars PROVE PanelInv'
  OBVIOUS
<1>1. CASE \E w \in Workers : Handler(w)
  <2> PICK w \in Workers : Handler(w)
    BY <1>1
  <2> QED
    BY AddWareKeeps, ModifyWareKeeps, EmitKeeps DEF Handler
<1>2. CASE Manager
  BY <1>2, ForwardKeeps, UploadWareImageKeeps DEF Manager
<1>3. CASE Window
  BY <1>3, OnLoadedKeeps, OnAddedKeeps, OnUpdatedKeeps, OnUploadedKeeps,
     OnUploadErrorKeeps, SelectFirstKeeps DEF Window
<1>4. CASE \E i \in DOMAIN panel : Click(i)
  BY <1>4, ClickKeeps
<1>5. CASE OpenDialog \/ AcceptDialog \/ CancelDialog
  BY <1>5, DialogKeeps, AcceptDialogKeeps
<1>6. CASE UNCHANGED vars
  BY <1>6, PanelInvStutter
<1> QED
  BY <1>1, <1>2, <1>3, <1>4, <1>5, <1>6 DEF Next

\* PanelInv holds of every state: a ware added has one place between the handler
\* and the window's list, and an upload one event.
THEOREM PanelInvHolds == Spec => []PanelInv
  BY PanelInvInit, PanelInvNext, PTL DEF Spec

\* One event at most is about an upload, and one is while the window waits.
LEMMA OneUploadEvent == PanelInv => PanelTypeOK
<1> SUFFICES ASSUME PanelInv PROVE PanelTypeOK
  OBVIOUS
<1> DEFINE M == {j \in DOMAIN toManager : Asks(toManager[j])}
           W == {j \in DOMAIN toWindow : Answers(toWindow[j])}
<1>1. UploadEvents = {<<"toManager", i>> : i \in M} \cup {<<"toWindow", i>> : i \in W}
  BY DEF UploadEvents, Asks, Answers
<1>2. /\ \A i, j \in M : i = j
      /\ \A i, j \in W : i = j
      /\ M = {} \/ W = {}
      /\ user = "loading" <=> M # {} \/ W # {}
  BY DEF PanelInv, OneUpload
<1> HIDE DEF M, W
<1>3. user # "loading" => UploadEvents = {}
  BY <1>1, <1>2
<1>4. ASSUME user = "loading" PROVE \E e \in UploadEvents : UploadEvents = {e}
  <2>1. CASE M # {}
    <3>1. PICK i \in M : M = {i}
      BY <1>2, <2>1
    <3>2. UploadEvents = {<<"toManager", i>>}
      BY <1>1, <1>2, <2>1, <3>1
    <3> QED
      BY <3>2
  <2>2. CASE W # {}
    <3>1. PICK i \in W : W = {i}
      BY <1>2, <2>2
    <3>2. UploadEvents = {<<"toWindow", i>>}
      BY <1>1, <1>2, <2>2, <3>1
    <3> QED
      BY <3>2
  <2> QED
    BY <1>2, <1>4, <2>1, <2>2
<1> QED
  BY <1>3, <1>4 DEF PanelTypeOK, PanelInv

\* The type of every variable, and one upload at a time: the window is covered
\* from the choice of a file until its outcome comes, and then there is one event
\* about it in one of the two queues (StockWarePanel.qml, MainPageController).
THEOREM PanelTypeCorrect == Spec => []PanelTypeOK
  BY PanelInvHolds, OneUploadEvent, PTL

\* Whatever the order in which wares are added, announced by the threads of the
\* pool, passed on and loaded, no ware is in the window's list twice.
THEOREM EachWareOnce == Spec => []NoWareTwice
<1>1. PanelInv => NoWareTwice
  BY DEF PanelInv, PlacesOK
<1> QED
  BY <1>1, PanelInvHolds, PTL

\* Until a ware is added, an update and the outcome of an upload change the row
\* of their own ware, however many come and in whatever order.
THEOREM RowsShowTheirOwn == Spec => []ShownIsOwn
<1>1. PanelInv => ShownIsOwn
  BY DEF PanelInv
<1> QED
  BY <1>1, PanelInvHolds, PTL

\* The ware the window describes is the one whose index it would send with an
\* upload, once the list view has seen the wares added (StockWarePanel.qml:151).
THEOREM CurrentIsTheChosen == Spec => []CurrentIsChosen
<1>1. PanelInv => CurrentIsChosen
  BY DEF PanelInv
<1> QED
  BY <1>1, PanelInvHolds, PTL

-----------------------------------------------------------------------------
(* The indices the window sends while its list has no ware that was added.  *)

\* The window shows what ConfigManager listed, or nothing yet.
AsListed == Len(panel) <= Len(configWares)

InRange(index) == index + 1 \in DOMAIN configWares

\* The index of the current ware is one of ConfigManager's list, and so is the
\* one that is sent, or has been, with an upload.
IndicesOK ==
    /\ current.index = 0 \/ InRange(current.index)
    /\ user = "dialog" => configWares # <<>>
    /\ \A i \in DOMAIN toManager :
            Asks(toManager[i]) => InRange(toManager[i].index)
    /\ \A i \in DOMAIN toWindow : toWindow[i].signal # "missing"

IndexInv == AsListed => IndicesOK

\* Rows and indices are natural numbers.
LEMMA Lengths ==
    ASSUME PanelInv
    PROVE  /\ Len(panel) \in Nat /\ DOMAIN panel = 1 .. Len(panel)
           /\ Len(configWares) \in Nat /\ DOMAIN configWares = 1 .. Len(configWares)
           /\ current.index \in Nat
           /\ panel = <<>> <=> Len(panel) = 0
           /\ configWares = <<>> <=> Len(configWares) = 0
<1>1. panel \in Seq([code : Codes, shows : Codes]) /\ configWares \in Seq(Codes)
      /\ current.index \in Nat
  BY WarePanelAssumption DEF PanelInv, ValuesOK, WindowValuesOK, configWares
<1> QED
  BY <1>1

\* Steps that change neither the list nor the user.
LEMMA SameIndices ==
    ASSUME IndexInv, UNCHANGED <<panel, user>>,
           current'.index = current.index,
           \A i \in DOMAIN toManager' :
                Asks(toManager'[i]) => \E j \in DOMAIN toManager : toManager[j] = toManager'[i],
           \A i \in DOMAIN toWindow' :
                \/ toWindow'[i].signal # "missing"
                \/ \E j \in DOMAIN toWindow : toWindow[j] = toWindow'[i]
    PROVE  IndexInv'
  BY DEF IndexInv, AsListed, IndicesOK, InRange, configWares

LEMMA HandlerIndices ==
    ASSUME PanelInv, IndexInv, NEW w \in Workers, Handler(w)
    PROVE  IndexInv'
<1> USE DEF tableVars, windowVars
<1>1. CASE Emit(w)
  <2>1. toManager \in Seq(Signals)
    BY DEF PanelInv, ValuesOK, QueueValuesOK
  <2>2. PICK s \in {"added", "updated"}, c \in Codes : held[w] = <<WareSignal(s, c)>>
    BY <1>1, Announced
  <2> DEFINE e == WareSignal(s, c)
  <2>3. toManager' = toManager \o <<e>> /\ UNCHANGED <<panel, user, current, toWindow>>
    BY <1>1, <2>2 DEF Emit
  <2>4. ~Asks(e)
    BY DEF Asks, WareSignal
  <2> HIDE DEF e
  <2>5. \A i \in DOMAIN toManager' :
            toManager'[i] = e \/ (i \in DOMAIN toManager /\ toManager'[i] = toManager[i])
    BY <2>1, <2>3
  <2> QED
    BY <2>3, <2>4, <2>5, SameIndices
<1>2. CASE \E c \in Codes : AddWare(w, c) \/ ModifyWare(w, c)
  BY <1>2, SameIndices DEF AddWare, ModifyWare
<1> QED
  BY <1>1, <1>2 DEF Handler

LEMMA ManagerIndices ==
    ASSUME PanelInv, IndexInv, Manager
    PROVE  IndexInv'
<1> USE DEF tableVars, windowVars
<1>1. PICK signals : NextForManager(signals)
  BY DEF Manager, Forward, UploadWareImage
<1>2. /\ \A i \in DOMAIN toManager' : toManager'[i] = toManager[i + 1]
                                      /\ i + 1 \in DOMAIN toManager
      /\ 1 \in DOMAIN toManager /\ Head(toManager) = toManager[1]
      /\ Head(toManager) \in Signals
      /\ UNCHANGED <<panel, user, current>>
  BY <1>1, ManagerTakes
<1>3. toWindow \in Seq(Signals)
  BY DEF PanelInv, ValuesOK, QueueValuesOK
<1>4. CASE Forward
  <2>1. toWindow' = Append(toWindow, Head(toManager)) /\ Head(toManager).signal # "missing"
    BY <1>4 DEF Forward, NextForManager
  <2>2. \A i \in DOMAIN toWindow' :
            \/ i \in DOMAIN toWindow /\ toWindow'[i] = toWindow[i]
            \/ toWindow'[i] = Head(toManager)
    BY <1>2, <1>3, <2>1, Posting
  <2> QED
    BY <1>2, <2>1, <2>2, SameIndices
<1>5. CASE UploadWareImage
  <2> DEFINE index == Head(toManager).index
  <2>1. Asks(Head(toManager)) /\ index \in Nat
    BY <1>2, <1>5, Kinds DEF UploadWareImage, NextForManager, Asks
  <2>2. CASE InRange(index)
    <3>1. index \in 0 .. Len(configWares) - 1
      BY <2>1, <2>2, Lengths DEF InRange
    <3>2. PICK e \in {Uploaded(index), UploadError} : toWindow' = Append(toWindow, e)
      BY <1>5, <3>1 DEF UploadWareImage
    <3>3. e \in Signals /\ e.signal # "missing"
      BY <2>1, <2>2, <3>2, Events DEF InRange
    <3>4. \A i \in DOMAIN toWindow' :
              toWindow'[i] = e \/ (i \in DOMAIN toWindow /\ toWindow'[i] = toWindow[i])
      BY <1>3, <3>2, <3>3, Posting
    <3> QED
      BY <1>2, <3>3, <3>4, SameIndices
  <2>3. CASE ~InRange(index)
    <3>1. ~AsListed
      BY <1>2, <2>1, <2>3 DEF IndexInv, IndicesOK
    <3> QED
      BY <1>2, <3>1 DEF IndexInv, AsListed, configWares
  <2> QED
    BY <2>2, <2>3
<1> QED
  BY <1>4, <1>5 DEF Manager

LEMMA WindowIndices ==
    ASSUME PanelInv, IndexInv, Window
    PROVE  IndexInv'
<1>1. CASE SelectFirst
  BY <1>1 DEF SelectFirst, InfoOf, IndexInv, AsListed, IndicesOK, InRange, configWares
<1>2. ASSUME NEW signals, NextForWindow(signals), user' \in {user, "free"},
             AsListed' => AsListed,
             current'.index = current.index \/ InRange(current'.index)
      PROVE  IndexInv'
  <2>1. /\ \A i \in DOMAIN toWindow' : toWindow'[i] = toWindow[i + 1]
                                       /\ i + 1 \in DOMAIN toWindow
        /\ UNCHANGED toManager
    BY <1>2, WindowTakes
  <2> QED
    BY <1>2, <2>1 DEF IndexInv, IndicesOK, InRange, configWares
<1>3. CASE OnLoaded
  <2>1. NextForWindow({"loaded"}) /\ UNCHANGED <<current, user>>
    BY <1>3 DEF OnLoaded
  <2>2. panel = <<>>
    BY <2>1 DEF NextForWindow, PanelInv, LoadOK, Pending
  <2>3. AsListed
    BY <2>2, Lengths DEF AsListed
  <2> QED
    BY <1>2, <2>1, <2>3
<1>4. CASE OnAdded
  <2>1. NextForWindow({"added"}) /\ UNCHANGED <<current, user>>
    BY <1>4 DEF OnAdded
  <2>2. /\ Head(toWindow) \in Signals
        /\ Head(toWindow).signal = "added"
        /\ panel' = <<Row(Head(toWindow).code)>> \o panel
    BY <1>4, <2>1, WindowTakes DEF OnAdded
  <2>3. Row(Head(toWindow).code) \in [code : Codes, shows : Codes]
        /\ panel \in Seq([code : Codes, shows : Codes])
    BY <2>2, Kinds DEF Row, PanelInv, ValuesOK, WindowValuesOK
  <2>4. Len(panel') = Len(panel) + 1
    BY <2>2, <2>3
  <2>5. AsListed' => AsListed
    BY <2>4, Lengths DEF AsListed, configWares
  <2> QED
    BY <1>2, <2>1, <2>5
<1>5. ASSUME NEW i, NEW c \in Codes, panel' = UpdateItem(panel, i, c)
      PROVE  AsListed' => AsListed
  <2>1. panel \in Seq(Rows)
    BY DEF PanelInv, ValuesOK, WindowValuesOK, Rows
  <2> QED
    BY <1>5, <2>1, Updating DEF AsListed, configWares
<1>6. CASE OnUpdated
  <2>1. NextForWindow({"updated"}) /\ UNCHANGED <<current, user>>
    BY <1>6 DEF OnUpdated
  <2>2. Head(toWindow).code \in Codes
    BY <2>1, WindowTakes, Kinds
  <2>3. AsListed' => AsListed
    BY <1>5, <1>6, <2>2 DEF OnUpdated, AsListed, configWares
  <2> QED
    BY <1>2, <2>1, <2>3
<1>7. CASE OnUploaded
  <2>1. /\ NextForWindow({"uploaded"}) /\ user' = "free"
        /\ panel' = UpdateItem(panel, Head(toWindow).index + 1, Head(toWindow).code)
        /\ current'.index = Head(toWindow).index
    BY <1>7 DEF OnUploaded, InfoOf
  <2>2. /\ 1 \in DOMAIN toWindow /\ Head(toWindow) = toWindow[1]
        /\ Head(toWindow) \in Signals /\ Head(toWindow).signal = "uploaded"
    BY <2>1, WindowTakes
  <2>3. Head(toWindow).code \in Codes /\ InRange(Head(toWindow).index)
    BY <2>2, Kinds DEF PanelInv, UploadedOK, InRange
  <2> QED
    BY <1>2, <1>5, <2>1, <2>3
<1>8. CASE OnUploadError
  <2>1. /\ NextForWindow({"error", "missing"}) /\ user' = "free"
        /\ UNCHANGED <<panel, current>>
    BY <1>8 DEF OnUploadError
  <2> QED
    BY <1>2, <2>1 DEF AsListed, configWares
<1> QED
  BY <1>1, <1>3, <1>4, <1>6, <1>7, <1>8 DEF Window

LEMMA UserIndices ==
    ASSUME PanelInv, IndexInv,
           \/ \E i \in DOMAIN panel : Click(i)
           \/ OpenDialog \/ AcceptDialog \/ CancelDialog
    PROVE  IndexInv'
<1> USE DEF IndexInv, AsListed, IndicesOK, InRange, configWares
<1>1. ASSUME NEW i \in DOMAIN panel, Click(i)
      PROVE  IndexInv'
  <2>1. /\ UNCHANGED <<toManager, toWindow, panel, user>>
        /\ current'.index = i - 1
    BY <1>1 DEF Click, InfoOf
  <2>2. AsListed => (i - 1) + 1 \in DOMAIN configWares
    BY Lengths
  <2> QED
    BY <2>1, <2>2
<1>2. CASE OpenDialog
  <2>1. AsListed => configWares # <<>>
    BY <1>2, Lengths DEF OpenDialog
  <2> QED
    BY <1>2, <2>1 DEF OpenDialog
<1>3. CASE CancelDialog
  BY <1>3 DEF CancelDialog
<1>4. CASE AcceptDialog
  <2> DEFINE e == Upload(current.index)
  <2>1. /\ user = "dialog" /\ user' = "loading"
        /\ toManager' = Append(toManager, e)
        /\ UNCHANGED <<toWindow, panel, current>>
    BY <1>4 DEF AcceptDialog
  <2>2. e \in Signals /\ e.index = current.index /\ toManager \in Seq(Signals)
    BY Events, Lengths DEF PanelInv, ValuesOK, QueueValuesOK, Upload
  <2> HIDE DEF e
  <2>3. \A i \in DOMAIN toManager' :
            toManager'[i] = e \/ (i \in DOMAIN toManager /\ toManager'[i] = toManager[i])
    BY <2>1, <2>2, Posting
  <2>4. AsListed => current.index + 1 \in DOMAIN configWares
    <3>1. AsListed => 0 + 1 \in DOMAIN configWares
      BY <2>1, Lengths
    <3> QED
      BY <3>1
  <2> QED
    BY <2>1, <2>2, <2>3, <2>4
<1> QED
  BY <1>1, <1>2, <1>3, <1>4

LEMMA IndexInvInit == Init => IndexInv
  BY DEF Init, NothingChosen, IndexInv, IndicesOK, Asks

LEMMA IndexInvNext == PanelInv /\ IndexInv /\ [Next]_vars => IndexInv'
<1>1. CASE UNCHANGED vars
  BY <1>1 DEF vars, tableVars, windowVars, IndexInv, AsListed, IndicesOK, InRange,
              configWares
<1> QED
  BY <1>1, HandlerIndices, ManagerIndices, WindowIndices, UserIndices DEF Next

\* While no added ware stands in the list, no upload is answered with a ware
\* that does not exist, whatever is clicked, loaded, modified and uploaded and
\* however the signals are delayed (ConfigManager.cpp:130): an added ware is
\* all that makes the message wrong.
THEOREM MissingOnlyAfterAdd == Spec => []MissingAfterAdd
<1>1. IndexInv => MissingAfterAdd
  BY DEF IndexInv, AsListed, IndicesOK, MissingAfterAdd
<1> QED
  BY <1>1, IndexInvInit, IndexInvNext, PanelInvHolds, PTL DEF Spec
=============================================================================
