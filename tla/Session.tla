------------------------------ MODULE Session ------------------------------
(***************************************************************************)
(* Signing in and out and the loads that lead to the home screen:          *)
(* SceneDelegate, LoginViewController, MainTabBarController, the choice of *)
(* a device in DevicesCollectionViewController, and the calls they make of *)
(* FirebaseManager, on several phones.  Each action is a tap, a start or   *)
(* end of the app, or one completion handler; all handlers of a phone run  *)
(* on its main queue.  Nobody signs in a second time while checkUser waits *)
(* for the first sign-in, and every account has a verified address.        *)
(***************************************************************************)
EXTENDS Integers, FiniteSets, Firestore

CONSTANTS
  Phones,
  Users,            \* accounts, by uid
  Devices,          \* names (devId) of devices documents
  None,             \* nil, and the empty devId
  Faults,           \* subset of {"kill", "readError", "signOutError"}
  MaxFaults,        \* bound on the faults in a behaviour
  MaxChoices        \* bound on the devices chosen in a behaviour

ASSUME DistinctAssumption ==
  /\ None \notin Users \cup Devices \cup Phones
  /\ Missing \notin [currentDevice : Devices \cup {None}]

ASSUME BoundsAssumption == MaxFaults \in Nat /\ MaxChoices \in Nat

VARIABLES
  users,            \* server: collection "users", by uid
  owner,            \* server: collection "devices", uid of each document
  account,          \* Auth.auth().currentUser of each phone, kept by the phone
  queue,            \* LevelDB: each phone's writes whose results are not in, by account
  sent,             \* how many of the first of them the server has applied on
                    \* the phone's write stream
  screen,           \* what each phone's window shows
  call,             \* the read each phone waits for
  tab,              \* each phone's MainTabBarController
  devices,          \* DevicesCollectionViewController.devices
  crashed,          \* phones on which the app ended on a nil
  chosen,           \* history: the device each user chose last, on any phone
  maker,            \* history: the phone that made each user's document and
                    \* still holds that write, while nobody else has written
  choices,          \* number of devices chosen so far
  faults            \* number of faults so far

server == <<users, owner>>
outbox == <<queue, sent>>
ui == <<screen, call, tab, devices, crashed>>
history == <<chosen, choices, faults>>
vars == <<server, account, outbox, ui, maker, history>>

Screens == {"off", "login", "tabBar", "devices"}
Calls == {"none", "checkUser", "getUser", "getDevices", "getRides", "loadDevices"}

Profile == [currentDevice : Devices \cup {None}]

Writes ==
  [kind : {"setData"}, name : Users, data : Profile]
    \cup [kind : {"updateData"}, name : Users, field : {"currentDevice"}, data : Devices]

\* A tab bar is for the user signed in when it was made.
TabBars ==
  [uid : Users \cup {None}, currentDevice : Devices \cup {None}, devices : SUBSET Devices,
   chosenDevice : Devices \cup {None}, viewControllers : BOOLEAN]

TypeOK ==
  /\ users \in [Users -> Profile \cup {Missing}]
  /\ owner \in [Devices -> Users \cup {None}]
  /\ account \in [Phones -> Users \cup {None}]
  /\ queue \in [Phones -> [Users -> Seq(Writes)]] /\ sent \in [Phones -> Nat]
  /\ screen \in [Phones -> Screens] /\ call \in [Phones -> Calls]
  /\ tab \in [Phones -> TabBars]
  /\ devices \in [Phones -> SUBSET Devices]
  /\ crashed \subseteq Phones
  /\ chosen \in [Users -> Devices \cup {None}] /\ maker \in [Users -> Phones \cup {None}]
  /\ choices \in 0 .. MaxChoices /\ faults \in 0 .. MaxFaults

NewTabBar(uid) ==
  [uid |-> uid, currentDevice |-> None, devices |-> {}, chosenDevice |-> None,
   viewControllers |-> FALSE]

Init ==
  /\ users = [u \in Users |-> Missing] /\ owner = [d \in Devices |-> None]
  /\ account = [p \in Phones |-> None]
  /\ queue = [p \in Phones |-> [u \in Users |-> <<>>]] /\ sent = [p \in Phones |-> 0]
  /\ screen = [p \in Phones |-> "off"] /\ call = [p \in Phones |-> "none"]
  /\ tab = [p \in Phones |-> NewTabBar(None)]
  /\ devices = [p \in Phones |-> {}]
  /\ crashed = {}
  /\ chosen = [u \in Users |-> None] /\ maker = [u \in Users |-> None]
  /\ choices = 0 /\ faults = 0

Fault(kind) == kind \in Faults /\ faults < MaxFaults /\ faults' = faults + 1

\* The users document a read by phone p answers with.
UserDocument(p, uid) == View(users, queue[p][uid])[uid]

Write(p, uid, write) == queue' = [queue EXCEPT ![p][uid] = Append(@, write)]

-----------------------------------------------------------------------------
(* The steps a handler may end with.                                       *)

\* The write stream ends: what has been applied on it may be sent again.
Restart(p) == sent' = [sent EXCEPT ![p] = 0]

Show(p, s, c) == screen' = [screen EXCEPT ![p] = s] /\ call' = [call EXCEPT ![p] = c]

\* A MainTabBarController is made and viewDidLoad asks for the user.
PresentTabBar(p) ==
  /\ Show(p, "tabBar", "getUser")
  /\ tab' = [tab EXCEPT ![p] = NewTabBar(account[p])]

\* Unwrapping nil ends the app.
Crash(p) ==
  /\ Show(p, "off", "none")
  /\ crashed' = crashed \cup {p}
  /\ Restart(p) /\ UNCHANGED tab

\* The handler of a failed read returns without calling its completion.
GiveUp(p) == Show(p, screen[p], "none") /\ UNCHANGED <<sent, tab, crashed>>

-----------------------------------------------------------------------------
\* SceneDelegate: a phone that is signed in goes to the tab bar directly.
Launch(p) ==
  /\ screen[p] = "off"
  /\ IF account[p] # None
       THEN PresentTabBar(p)
       ELSE Show(p, "login", "none") /\ UNCHANGED tab
  /\ crashed' = crashed \ {p}
  /\ UNCHANGED <<server, account, outbox, devices, maker, history>>

\* The user or the system ends the app; account and queue are kept.
Kill(p) ==
  /\ screen[p] # "off" /\ Fault("kill")
  /\ Show(p, "off", "none") /\ Restart(p)
  /\ UNCHANGED <<server, account, queue, tab, devices, crashed, maker, chosen, choices>>

\* sign(_:didSignInFor:withError:) when Google and Firebase agree.
SignIn(p, uid) ==
  /\ screen[p] = "login" /\ call[p] = "none"
  /\ account' = [account EXCEPT ![p] = uid]
  /\ Show(p, "login", "checkUser") /\ Restart(p)
  /\ UNCHANGED <<server, queue, tab, devices, crashed, maker, history>>

NewProfile == [currentDevice |-> None]

\* Mutant: the document is written whether or not it exists.
CreateUserAlways(p, uid) == Write(p, uid, SetData(uid, NewProfile))

\* Mutant: the test of what checkUser found is the wrong way round.
CreateUserInverted(p, uid) ==
  IF UserDocument(p, uid) # Missing
    THEN Write(p, uid, SetData(uid, NewProfile))
    ELSE UNCHANGED queue

CreateUser(p, uid) ==
  IF UserDocument(p, uid) = Missing
    THEN Write(p, uid, SetData(uid, NewProfile))
    ELSE UNCHANGED queue

\* checkUser's completion: create a user who is not there, go on to the home.
checkUser(p) ==
  /\ call[p] = "checkUser"
  /\ CreateUser(p, account[p])
  /\ PresentTabBar(p)
  /\ UNCHANGED <<server, account, sent, devices, crashed, maker, history>>

\* getUser's completion: data()! of a document that does not exist ends the app.
getUser(p) ==
  /\ call[p] = "getUser"
  /\ LET document == UserDocument(p, tab[p].uid)
     IN IF document = Missing
          THEN Crash(p)
          ELSE /\ tab' = [tab EXCEPT ![p].currentDevice = document.currentDevice]
               /\ Show(p, "tabBar", "getDevices")
               /\ UNCHANGED <<sent, crashed>>
  /\ UNCHANGED <<server, account, queue, devices, maker, history>>

\* Mutant: the query's condition on the uid is dropped.
DevicesOfAnyone(uid) == { d \in Devices : owner[d] # None }

DevicesOf(uid) == { d \in Devices : owner[d] = uid }

\* Mutant: the first device, whatever the user has chosen.
loadCurrDevFirst(devId, devs) == IF devs # {} THEN devs ELSE {None}

\* Mutant: the load does not go on for a user without devices.
loadCurrDevSome(devId, devs) == IF devId \in devs THEN {devId} ELSE devs

\* loadCurrDev(devId:): the devices the call may give, None for Device().
loadCurrDev(devId, devs) ==
  CASE devId # None /\ devId \in devs -> {devId}
    [] devId = None /\ devs # {}      -> devs
    [] OTHER                          -> {None}

\* getDevices' completion.
getDevices(p) ==
  /\ call[p] = "getDevices"
  /\ LET found == DevicesOf(tab[p].uid)
     IN \E d \in loadCurrDev(tab[p].currentDevice, found) :
          tab' = [tab EXCEPT ![p].devices = found, ![p].chosenDevice = d]
  /\ Show(p, "tabBar", "getRides")
  /\ UNCHANGED <<server, account, outbox, devices, crashed, maker, history>>

\* getRides' completion: the tabs appear.
getRides(p) ==
  /\ call[p] = "getRides"
  /\ tab' = [tab EXCEPT ![p].viewControllers = TRUE]
  /\ Show(p, "tabBar", "none")
  /\ UNCHANGED <<server, account, outbox, devices, crashed, maker, history>>

\* A read fails. checkUser unwraps its snapshot; the others give up, and
\* loadDevices too, which leaves the list of devices empty.
ReadError(p) ==
  /\ call[p] # "none" /\ Fault("readError")
  /\ IF call[p] = "checkUser" THEN Crash(p) ELSE GiveUp(p)
  /\ UNCHANGED <<server, account, queue, devices, maker, chosen, choices>>

-----------------------------------------------------------------------------
\* HomeViewController.showDevices, the list's viewDidLoad.
showDevices(p) ==
  /\ screen[p] = "tabBar" /\ tab[p].viewControllers
  /\ Show(p, "devices", "loadDevices")
  /\ devices' = [devices EXCEPT ![p] = {}]
  /\ UNCHANGED <<server, account, outbox, tab, crashed, maker, history>>

\* DataManager.loadDevices' completion.
loadDevices(p) ==
  /\ call[p] = "loadDevices"
  /\ devices' = [devices EXCEPT ![p] = DevicesOf(account[p])]
  /\ Show(p, "devices", "none")
  /\ UNCHANGED <<server, account, outbox, tab, crashed, maker, history>>

\* closeMenu: back to the tab bar as it was.
closeMenu(p) ==
  /\ screen[p] = "devices"
  /\ Show(p, "tabBar", "none")
  /\ UNCHANGED <<server, account, outbox, tab, devices, crashed, maker, history>>

\* Mutant: the choice is not written.
setCurrDeviceNever(p, d) == UNCHANGED queue

\* Mutant: the device shown so far is written.
setCurrDeviceStale(p, d) ==
  Write(p, account[p], UpdateData(account[p], "currentDevice", tab[p].currentDevice))

setCurrDevice(p, d) == Write(p, account[p], UpdateData(account[p], "currentDevice", d))

\* didSelectItemAt: the write is not waited for.
didSelectItem(p, d) ==
  /\ screen[p] = "devices" /\ d \in devices[p]
  /\ choices < MaxChoices /\ choices' = choices + 1
  /\ setCurrDevice(p, d)
  /\ PresentTabBar(p)
  /\ chosen' = [chosen EXCEPT ![account[p]] = d]
  /\ UNCHANGED <<server, account, sent, devices, crashed, maker, faults>>

\* userLogout: Auth's signOut may fail, which is reported and passed over.
userLogout(p) ==
  /\ screen[p] = "tabBar" /\ tab[p].viewControllers
  /\ Show(p, "login", "none")
  /\ \/ account' = [account EXCEPT ![p] = None] /\ Restart(p) /\ UNCHANGED faults
     \/ Fault("signOutError") /\ UNCHANGED <<account, sent>>
  /\ UNCHANGED <<server, queue, tab, devices, crashed, maker, chosen, choices>>

-----------------------------------------------------------------------------
\* The app runs, signed in: the write stream is the account's.
Online(p) == screen[p] # "off" /\ account[p] # None

\* The server applies the next write it is sent.
ServerApplies(p) ==
  /\ Online(p)
  /\ LET uid == account[p]
         rows == queue[p][uid]
     IN /\ sent[p] < Len(rows) /\ sent' = [sent EXCEPT ![p] = @ + 1]
        /\ LET row == rows[sent[p] + 1]
           IN /\ users' = Applied(users, row)
              /\ maker' = [maker EXCEPT ![uid] =
                   IF @ = p \/ (row.kind = "setData" /\ users[uid] = Missing) THEN p ELSE None]
  /\ UNCHANGED <<owner, account, queue, ui, history>>

\* The result of the first write is read, which ends its row.
WriteResult(p) ==
  /\ Online(p) /\ sent[p] > 0 /\ sent' = [sent EXCEPT ![p] = @ - 1]
  /\ LET uid == account[p]
     IN /\ queue' = [queue EXCEPT ![p][uid] = Tail(@)]
        /\ maker' = [maker EXCEPT ![uid] =
             IF @ = p /\ Head(queue[p][uid]).kind = "setData" THEN None ELSE @]
  /\ UNCHANGED <<server, account, ui, history>>

\* The write stream fails, or is started again for a new token: the rows whose
\* results have not been read are all sent again.
StreamRestarts(p) ==
  /\ sent[p] > 0 /\ Restart(p)
  /\ UNCHANGED <<server, account, queue, ui, maker, history>>

\* AddDeviceViewController has stored a device of a user who has a document.
Register(uid, d) ==
  /\ owner[d] = None /\ users[uid] # Missing
  /\ owner' = [owner EXCEPT ![d] = uid]
  /\ UNCHANGED <<users, account, outbox, ui, maker, history>>

Answer(p) ==
  checkUser(p) \/ getUser(p) \/ getDevices(p) \/ getRides(p) \/ loadDevices(p)

Tap(p) ==
  \/ \E uid \in Users : SignIn(p, uid)
  \/ showDevices(p) \/ closeMenu(p) \/ userLogout(p)
  \/ \E d \in Devices : didSelectItem(p, d)

Deliver(p) == ServerApplies(p) \/ WriteResult(p) \/ StreamRestarts(p)

Next ==
  \/ \E p \in Phones : Launch(p) \/ Kill(p) \/ Tap(p) \/ Answer(p) \/ ReadError(p) \/ Deliver(p)
  \/ \E uid \in Users, d \in Devices : Register(uid, d)

Spec == Init /\ [][Next]_vars

\* Firestore answers every read in the end; nobody has to tap anything.
FairSpec == Spec /\ \A p \in Phones : WF_vars(Answer(p))

-----------------------------------------------------------------------------
Home(p) == screen[p] \in {"tabBar", "devices"} /\ tab[p].viewControllers

(***************************************************************************)
(* Whoever uses a phone after whom, the home is the account's own: the     *)
(* device in it is one of the account's, and so are the devices listed.    *)
(***************************************************************************)
HomeIsOwn ==
  \A p \in Phones : Home(p) =>
    /\ account[p] = tab[p].uid
    /\ tab[p].chosenDevice # None => owner[tab[p].chosenDevice] = account[p]
    /\ screen[p] = "devices" => \A d \in devices[p] : owner[d] = account[p]

(***************************************************************************)
(* The home shows the device its user chose last, although the choice is   *)
(* not waited for before the user is read again, and the app may have been *)
(* killed, and others have used the phone, in between.                     *)
(***************************************************************************)
HomeShowsChoice ==
  \A p \in Phones : Home(p) /\ chosen[account[p]] # None =>
    tab[p].chosenDevice = chosen[account[p]]

(***************************************************************************)
(* A users document is created only while there is none ("if user doesn't  *)
(* exist, create in db"): where a phone holds a setData for a user who has *)
(* a document, that write, the first of the user's on the phone, is what   *)
(* made the document, and only the phone's own later writes, which follow  *)
(* it again if it is sent again, have changed the document since.          *)
(***************************************************************************)
CreatedOnlyIfMissing ==
  \A p \in Phones : \A uid \in Users : \A i \in DOMAIN queue[p][uid] :
    queue[p][uid][i].kind = "setData" =>
      users[uid] = Missing \/ (i = 1 /\ maker[uid] = p)

(***************************************************************************)
(* Once no phone holds a write of a user any more, the server has the      *)
(* device the user chose last, whatever was sent again on the way.         *)
(***************************************************************************)
ChoiceStored ==
  \A uid \in Users :
    chosen[uid] # None /\ (\A p \in Phones : queue[p][uid] = <<>>) =>
      users[uid] = [currentDevice |-> chosen[uid]]

(***************************************************************************)
(* Without a fault before it, the app never ends on a nil: no document it  *)
(* unwraps is missing, although createUser is not waited for.              *)
(***************************************************************************)
NoCrash == crashed # {} => faults > 0

(***************************************************************************)
(* If nothing fails, a sign-in leads to the home screen.                   *)
(***************************************************************************)
SignInLeadsHome ==
  [](faults = 0) => \A p \in Phones : (call[p] = "checkUser") ~> Home(p)

(***************************************************************************)
(* A phone that starts signed in comes to the home view once nothing fails *)
(* any more: "autologin by directly presenting home view".                 *)
(***************************************************************************)
AutologinLeadsHome ==
  \A p \in Phones :
    (faults = MaxFaults /\ call[p] = "getUser") ~> Home(p)
=============================================================================
