------------------------------ MODULE WarePanel -----------------------------
(***************************************************************************)
(* The window's list of wares.  Threads of the HTTP pool add and modify    *)
(* wares in tb_config_ware and signal it to ConfigManager's thread, which  *)
(* signals it to the GUI thread, which changes the list.  The user picks a *)
(* ware there and an image for it; the upload goes to ConfigManager as the *)
(* index of the ware, and its outcome comes back as that index.  A signal  *)
(* to another thread is queued there.  What a ware says (name, prices,     *)
(* stock) is left out: a row of the list shows the texts of some ware.     *)
(***************************************************************************)
EXTENDS Integers, Sequences

CONSTANTS
    Codes,        \* ware codes
    Workers,      \* threads of the pool that handle requests
    Nobody,       \* no ware
    Listed,       \* codes of tb_config_ware when ConfigManager starts, as listed
    MaxEdits,     \* bound on the requests that modify a ware
    MaxUploads,   \* bound on the uploads
    UploadMayFail, \* may the copy of the file or its update fail?
    StartMayFail  \* may app.json be unreadable?

ASSUME WarePanelAssumption ==
    /\ Nobody \notin Codes
    /\ Listed \in Seq(Codes)
    /\ \A i, j \in DOMAIN Listed : i # j => Listed[i] # Listed[j]
    /\ MaxEdits \in Nat
    /\ MaxUploads \in Nat
    /\ UploadMayFail \in BOOLEAN
    /\ StartMayFail \in BOOLEAN

VARIABLES
    table,       \* codes of the rows of tb_config_ware
    held,        \* the signal each handler is about to emit, if any
    up,          \* ConfigManager's OnStart succeeded
    toManager,   \* events for ConfigManager's thread
    toWindow,    \* events for the GUI thread
    panel,       \* m_items: the code of each row and the ware whose texts it shows
    unlaid,      \* the list view has yet to see that the count changed
    current,     \* m_currentWareInfo
    user,        \* "free", in the file "dialog", or behind the "loading" screen
    picked,      \* history: the ware shown when the dialog was opened
    edits, uploads

tableVars  == <<table, held, edits>>
windowVars == <<panel, unlaid, current, user, picked, uploads>>
vars == <<tableVars, up, toManager, toWindow, windowVars>>

\* m_configWares: filled by OnStart, and never changed after it.
configWares == Listed

Row(c) == [code |-> c, shows |-> c]

\* The index QML passes while currentWareInfo is empty: undefined becomes 0.
NothingChosen == [index |-> 0, code |-> Nobody]

Upload(i)      == [signal |-> "upload", index |-> i]
Uploaded(i)    == [signal |-> "uploaded", index |-> i, code |-> configWares[i + 1]]
UploadError    == [signal |-> "error"]
Missing        == [signal |-> "missing"]
WareSignal(s, c) == [signal |-> s, code |-> c]

\* ConfigManager::OnStart emits signalLoadConfigWaresSuccess before it reads
\* app.json; when that fails its thread ends and no server is started.
Init ==
    /\ table = {Listed[i] : i \in DOMAIN Listed}
    /\ held = [w \in Workers |-> <<>>]
    /\ up \in {TRUE, ~StartMayFail}
    /\ toManager = <<>>
    /\ toWindow = <<[signal |-> "loaded"]>>
    /\ panel = <<>>
    /\ unlaid = FALSE
    /\ current = NothingChosen
    /\ user = "free"
    /\ picked = Nobody
    /\ edits = 0
    /\ uploads = 0

-----------------------------------------------------------------------------
(* ModifyConfigWareRouter, on a thread of the pool.                        *)

\* Variant: the insert replaces a row that is there.
AddOrReplace(w, c) ==
    /\ up
    /\ held[w] = <<>>
    /\ edits < MaxEdits
    /\ edits' = edits + 1
    /\ table' = table \cup {c}
    /\ held' = [held EXCEPT ![w] = <<WareSignal("added", c)>>]
    /\ UNCHANGED <<up, toManager, toWindow, windowVars>>

\* operate 1: an INSERT, which fails when there is a row of that code.
AddWare(w, c) ==
    /\ up
    /\ held[w] = <<>>
    /\ c \notin table
    /\ table' = table \cup {c}
    /\ held' = [held EXCEPT ![w] = <<WareSignal("added", c)>>]
    /\ UNCHANGED <<up, toManager, toWindow, windowVars, edits>>

\* operate 2: the row is read, changed and written back.
ModifyWare(w, c) ==
    /\ up
    /\ held[w] = <<>>
    /\ c \in table
    /\ edits < MaxEdits
    /\ edits' = edits + 1
    /\ held' = [held EXCEPT ![w] = <<WareSignal("updated", c)>>]
    /\ UNCHANGED <<table, up, toManager, toWindow, windowVars>>

\* The emit that follows queues the signal for ConfigManager; until then, other
\* threads may write and emit.
Emit(w) ==
    /\ held[w] # <<>>
    /\ toManager' = toManager \o held[w]
    /\ held' = [held EXCEPT ![w] = <<>>]
    /\ UNCHANGED <<table, edits, up, toWindow, windowVars>>

-----------------------------------------------------------------------------
(* ConfigManager's thread takes the next event.                            *)

NextForManager(signals) ==
    /\ up
    /\ toManager # <<>> /\ Head(toManager).signal \in signals
    /\ toManager' = Tail(toManager)
    /\ UNCHANGED <<tableVars, up, windowVars>>

\* Variant: a new ware is not passed on.
ForwardUpdatesOnly ==
    /\ NextForManager({"added", "updated"})
    /\ toWindow' = IF Head(toManager).signal = "added" THEN toWindow
                   ELSE Append(toWindow, Head(toManager))

\* onAddConfigWareSuccess, onUpdateConfigWareSuccess: both only pass it on.
Forward ==
    /\ NextForManager({"added", "updated"})
    /\ toWindow' = Append(toWindow, Head(toManager))

\* Variant: an index out of range is not answered.
UploadOrIgnore ==
    /\ NextForManager({"upload"})
    /\ LET index == Head(toManager).index
       IN  \/ /\ index \in 0 .. Len(configWares) - 1
              /\ toWindow' = Append(toWindow, Uploaded(index))
           \/ index \notin 0 .. Len(configWares) - 1 /\ UNCHANGED toWindow

\* Variant: the last of the wares listed is taken to be out of range.
UploadBelowLast ==
    /\ NextForManager({"upload"})
    /\ LET index == Head(toManager).index
           found == index \in 0 .. Len(configWares) - 2
       IN  \/ ~found /\ toWindow' = Append(toWindow, Missing)
           \/ found /\ toWindow' = Append(toWindow, Uploaded(index))
           \/ found /\ UploadMayFail /\ toWindow' = Append(toWindow, UploadError)

\* onUploadWareImage: the index is looked up in the wares listed at the start.
UploadWareImage ==
    /\ NextForManager({"upload"})
    /\ LET index == Head(toManager).index
           found == index \in 0 .. Len(configWares) - 1
       IN  \/ ~found /\ toWindow' = Append(toWindow, Missing)
           \/ found /\ toWindow' = Append(toWindow, Uploaded(index))
           \/ found /\ UploadMayFail /\ toWindow' = Append(toWindow, UploadError)

Manager == Forward \/ UploadWareImage

-----------------------------------------------------------------------------
(* MainPageController's slots, on the GUI thread.                          *)

NextForWindow(signals) ==
    /\ toWindow # <<>> /\ Head(toWindow).signal \in signals
    /\ toWindow' = Tail(toWindow)
    /\ UNCHANGED <<tableVars, up, toManager, picked, uploads>>

\* SetCurrentWareInfo(index): an index out of range gives an empty ware.
InfoOf(rows, index) ==
    [index |-> index,
     code |-> IF index + 1 \in DOMAIN rows THEN rows[index + 1].code ELSE Nobody]

\* UpdateItem(index, item): all but the code of the row; nothing out of range.
UpdateItem(rows, i, c) ==
    IF i \in DOMAIN rows THEN [rows EXCEPT ![i].shows = c] ELSE rows

\* InitWares
OnLoaded ==
    /\ NextForWindow({"loaded"})
    /\ panel' = [i \in DOMAIN configWares |-> Row(configWares[i])]
    /\ unlaid' = (panel' # <<>>)
    /\ UNCHANGED <<current, user>>

OnAdded ==
    /\ NextForWindow({"added"})
    /\ panel' = <<Row(Head(toWindow).code)>> \o panel
    /\ unlaid' = TRUE
    /\ UNCHANGED <<current, user>>

\* Variant: GetIndex counts from one.
OnUpdatedNext ==
    /\ NextForWindow({"updated"})
    /\ LET c == Head(toWindow).code
           rows == {i \in DOMAIN panel : panel[i].code = c}
       IN  panel' = IF rows = {} THEN panel
                    ELSE UpdateItem(panel, 1 + CHOOSE i \in rows : TRUE, c)
    /\ UNCHANGED <<unlaid, current, user>>

\* A ware the list does not have (yet) is ignored: GetIndex is -1.
OnUpdated ==
    /\ NextForWindow({"updated"})
    /\ LET c == Head(toWindow).code
           first(i) == panel[i].code = c /\ \A j \in 1 .. i - 1 : panel[j].code # c
       IN  \/ \E i \in DOMAIN panel : first(i) /\ panel' = UpdateItem(panel, i, c)
           \/ (\A i \in DOMAIN panel : panel[i].code # c) /\ UNCHANGED panel
    /\ UNCHANGED <<unlaid, current, user>>

OnUploaded ==
    /\ NextForWindow({"uploaded"})
    /\ user' = "free"
    /\ panel' = UpdateItem(panel, Head(toWindow).index + 1, Head(toWindow).code)
    /\ current' = InfoOf(panel, Head(toWindow).index)
    /\ UNCHANGED unlaid

OnUploadError ==
    /\ NextForWindow({"error", "missing"})
    /\ user' = "free"
    /\ UNCHANGED <<panel, unlaid, current>>

\* Variant: the first row is not selected again.
SeeCount ==
    /\ unlaid
    /\ unlaid' = FALSE
    /\ UNCHANGED <<tableVars, up, toManager, toWindow, panel, current, user,
                   picked, uploads>>

\* The list view sees the new count when it is next laid out, and selects the
\* first row: StockWarePanel.qml's onCountChanged, itemClicked(0).
SelectFirst ==
    /\ unlaid
    /\ unlaid' = FALSE
    /\ current' = InfoOf(panel, 0)
    /\ UNCHANGED <<tableVars, up, toManager, toWindow, panel, user, picked, uploads>>

Window == OnLoaded \/ OnAdded \/ OnUpdated \/ OnUploaded \/ OnUploadError \/ SelectFirst

-----------------------------------------------------------------------------
(* The user.                                                               *)

\* itemClicked
Click(i) ==
    /\ user = "free"
    /\ current' = InfoOf(panel, i - 1)
    /\ UNCHANGED <<tableVars, up, toManager, toWindow, panel, unlaid, user,
                   picked, uploads>>

\* A click on the image of the current ware opens the file dialog.
OpenDialog ==
    /\ user = "free" /\ panel # <<>>
    /\ uploads < MaxUploads
    /\ user' = "dialog"
    /\ picked' = current.code
    /\ UNCHANGED <<tableVars, up, toManager, toWindow, panel, unlaid, current, uploads>>

\* Variant: the window is not covered while the upload lasts.
AcceptUncovered ==
    /\ user = "dialog"
    /\ user' = "free"
    /\ uploads' = uploads + 1
    /\ toManager' = Append(toManager, Upload(current.index))
    /\ UNCHANGED <<tableVars, up, toWindow, panel, unlaid, current, picked>>

\* uploadWareImage, with the index that is current when a file was chosen.
AcceptDialog ==
    /\ user = "dialog"
    /\ user' = "loading"
    /\ uploads' = uploads + 1
    /\ toManager' = Append(toManager, Upload(current.index))
    /\ UNCHANGED <<tableVars, up, toWindow, panel, unlaid, current, picked>>

CancelDialog ==
    /\ user = "dialog"
    /\ user' = "free"
    /\ UNCHANGED <<tableVars, up, toManager, toWindow, panel, unlaid, current,
                   picked, uploads>>

-----------------------------------------------------------------------------

Handler(w) ==
    \/ \E c \in Codes : AddWare(w, c) \/ ModifyWare(w, c)
    \/ Emit(w)

Next ==
    \/ \E w \in Workers : Handler(w)
    \/ Manager
    \/ Window
    \/ \E i \in DOMAIN panel : Click(i)
    \/ OpenDialog \/ AcceptDialog \/ CancelDialog

\* Each thread goes on; nobody has to send a request or to use the window.
Fairness ==
    /\ \A w \in Workers : WF_vars(Emit(w))
    /\ WF_vars(Manager)
    /\ WF_vars(Window)

Spec == Init /\ [][Next]_vars /\ Fairness

-----------------------------------------------------------------------------

CodesOrNobody == Codes \cup {Nobody}

Signals ==
    [signal : {"loaded", "error", "missing"}] \cup
    [signal : {"added", "updated"}, code : Codes] \cup
    [signal : {"upload"}, index : Nat] \cup
    [signal : {"uploaded"}, index : Nat, code : Codes]

\* What a handler may be about to emit.
Announcements ==
    {<<>>} \cup {<<WareSignal(s, c)>> : s \in {"added", "updated"}, c \in Codes}

HandlerValuesOK ==
    /\ table \subseteq Codes
    /\ held \in [Workers -> Announcements]
    /\ edits \in Nat

QueueValuesOK ==
    /\ up \in BOOLEAN
    /\ toManager \in Seq(Signals)
    /\ toWindow \in Seq(Signals)

WindowValuesOK ==
    /\ panel \in Seq([code : Codes, shows : Codes])
    /\ unlaid \in BOOLEAN
    /\ current \in [index : Nat, code : CodesOrNobody]
    /\ user \in {"free", "dialog", "loading"}
    /\ picked \in CodesOrNobody
    /\ uploads \in Nat

ValuesOK == HandlerValuesOK /\ QueueValuesOK /\ WindowValuesOK

\* The events about uploads that are under way.
UploadEvents ==
    {<<"toManager", i>> : i \in {j \in DOMAIN toManager :
        toManager[j].signal = "upload"}} \cup
    {<<"toWindow", i>> : i \in {j \in DOMAIN toWindow :
        toWindow[j].signal \in {"uploaded", "error", "missing"}}}

\* The type of every variable, and one upload at a time: while the screen is
\* covered there is one event about it, and at no other time is there any.
PanelTypeOK ==
    /\ ValuesOK
    /\ IF user = "loading" THEN \E e \in UploadEvents : UploadEvents = {e}
                           ELSE UploadEvents = {}

\* A ware is in the list once, however its signals are delayed: the insert, the
\* two queues and the list that OnStart read do not bring it in twice.
NoWareTwice ==
    \A i, j \in DOMAIN panel : i # j => panel[i].code # panel[j].code

\* Until a ware is added, every row shows the texts of its own ware: the index
\* of an update is looked up and that of an upload comes back as it was sent.
ShownIsOwn ==
    Len(panel) = Len(configWares) =>
        \A i \in DOMAIN panel : panel[i].shows = panel[i].code

\* What the window says of the current ware is of the row whose index it would
\* send with an upload, whatever was added before it: unless the list view has
\* yet to select its first row again (StockWarePanel.qml:151).
CurrentIsChosen ==
    panel # <<>> /\ ~unlaid =>
        /\ current.index + 1 \in DOMAIN panel
        /\ current.code = panel[current.index + 1].code

\* A ware that is in the table gets into the list, if there is a ConfigManager.
EveryAddIsShown ==
    \A c \in Codes :
        up /\ c \in table ~> \E i \in DOMAIN panel : panel[i].code = c

\* The loading screen of an upload goes away, whether the upload succeeds or
\* not, if there is a ConfigManager; otherwise it stays, as
\* signalLoadConfigWaresSuccess was emitted before OnStart failed
\* (ConfigManager.cpp:52).
LoadingEnds == up /\ user = "loading" ~> user # "loading"

\* An upload is answered with a ware that does not exist only when a ware that
\* was added stands in the list: until then each index the window can send,
\* chosen before, behind or while the list view selects its first row, is one of
\* the wares ConfigManager listed (ConfigManager.cpp:130, StockWarePanel.qml:151).
MissingAfterAdd ==
    Len(panel) <= Len(configWares) =>
        \A i \in DOMAIN toWindow : toWindow[i].signal # "missing"

\* "The ware does not exist" (ConfigManager.cpp:133) is said of a ware that
\* does not exist.
MissingDoesNotExist ==
    \A i \in DOMAIN toWindow :
        toWindow[i].signal = "missing" => picked \notin table
=============================================================================
