--------------------------- MODULE Session_proofs ---------------------------
(***************************************************************************)
(* Types and HomeIsOwn for every set of phones, users, devices and faults; *)
(* of a phone that is the only one, also what its users documents hold:    *)
(* CreatedOnlyIfMissing, NoCrash, HomeShowsChoice and ChoiceStored.        *)
(***************************************************************************)
EXTENDS Session, SequenceTheorems, FiniteSetTheorems, TLAPS

\* A set of natural numbers has a least one.
LEMMA LeastNatural ==
  ASSUME NEW T, T \subseteq Nat, T # {}
  PROVE  \E b \in T : \A y \in T : b <= y
<1> DEFINE Less == { p \in Nat \X Nat : p[1] < p[2] }
<1>1. IsWellFoundedOn(Less, Nat)
  BY NatLessThanWellFounded DEF OpToRel
<1>2. \A m, n \in Nat : m < n => <<m, n>> \in Less
  OBVIOUS
<1> HIDE DEF Less
<1>3. PICK b \in T : \A y \in T : ~ (<<y, b>> \in Less)
  BY <1>1, WFMin
<1>4. \A y \in T : ~ (y < b)
  BY <1>2, <1>3
<1>5. QED
  BY <1>4

\* A bounded set of natural numbers has a greatest one.
LEMMA GreatestNatural ==
  ASSUME NEW S, S \subseteq Nat, S # {}, NEW bound \in Nat, \A m \in S : m <= bound
  PROVE  \E n \in S : \A m \in S : m <= n
<1> DEFINE More == { p \in Nat \X Nat : p[1] < p[2] }
           Rest == { bound - m : m \in S }
<1>1. IsWellFoundedOn(More, Nat)
  BY NatLessThanWellFounded DEF OpToRel
<1>2. \A m, n \in Nat : m < n => <<m, n>> \in More
  OBVIOUS
<1> HIDE DEF More
<1>3. Rest \subseteq Nat /\ Rest # {}
  <2>1. \A m \in S : bound - m \in Nat
    OBVIOUS
  <2>2. QED
    BY <2>1
<1>4. PICK r \in Rest : \A q \in Rest : ~ (<<q, r>> \in More)
  BY <1>1, <1>3, WFMin
<1>5. \A q \in Rest : ~ (q < r)
  BY <1>2, <1>3, <1>4
<1>6. PICK n \in S : r = bound - n
  OBVIOUS
<1>7. \A m \in S : ~ (bound - m < bound - n)
  BY <1>5, <1>6
<1>8. QED
  BY <1>7


\* As much of TypeOK as the proof needs.
Shape ==
  /\ owner \in [Devices -> Users \cup {None}]
  /\ account \in [Phones -> Users \cup {None}]
  /\ screen \in [Phones -> Screens] /\ call \in [Phones -> Calls]
  /\ devices \in [Phones -> SUBSET Devices]
  /\ tab = [p \in Phones |->
              [uid |-> tab[p].uid, currentDevice |-> tab[p].currentDevice,
               devices |-> tab[p].devices, chosenDevice |-> tab[p].chosenDevice,
               viewControllers |-> tab[p].viewControllers]]

\* A read under way belongs to the screen that asked for it.
CallOnScreen(p) ==
  /\ call[p] = "checkUser" => screen[p] = "login" /\ account[p] # None
  /\ call[p] \in {"getUser", "getDevices", "getRides"} => screen[p] = "tabBar"
  /\ call[p] = "loadDevices" => screen[p] = "devices"

\* A tab bar shown is that of the user signed in, loaded or not, and a device
\* in it is that user's.
TabIsOwn(p) ==
  screen[p] \in {"tabBar", "devices"} =>
    /\ account[p] # None
    /\ account[p] = tab[p].uid
    /\ tab[p].chosenDevice # None =>
         tab[p].chosenDevice \in Devices /\ owner[tab[p].chosenDevice] = account[p]

ListIsOwn(p) ==
  screen[p] = "devices" => \A d \in devices[p] : owner[d] = account[p]

Own(p) == CallOnScreen(p) /\ TabIsOwn(p) /\ ListIsOwn(p)

IInv == Shape /\ \A p \in Phones : Own(p)

-----------------------------------------------------------------------------
LEMMA InitIInv == Init => IInv
  BY DistinctAssumption
  DEF Init, IInv, Shape, Own, CallOnScreen, TabIsOwn, ListIsOwn, NewTabBar,
      Screens, Calls

\* A phone whose part of the state does not change keeps Own.
LEMMA OthersKeepOwn ==
  ASSUME NEW q \in Phones, Own(q), owner' = owner,
         account'[q] = account[q], screen'[q] = screen[q], call'[q] = call[q],
         tab'[q] = tab[q], devices'[q] = devices[q]
  PROVE  Own(q)'
  BY DEF Own, CallOnScreen, TabIsOwn, ListIsOwn

\* What a step of phone p leaves of the others.
OthersSame(p) ==
  \A q \in Phones \ {p} :
    /\ account'[q] = account[q] /\ screen'[q] = screen[q] /\ call'[q] = call[q]
    /\ tab'[q] = tab[q] /\ devices'[q] = devices[q]

LEMMA LocalStep ==
  ASSUME IInv, NEW p \in Phones, owner' = owner, OthersSame(p), Shape', Own(p)'
  PROVE  IInv'
<1>1. ASSUME NEW q \in Phones PROVE Own(q)'
  <2>1. CASE q = p
    BY <2>1
  <2>2. CASE q # p
    BY <2>2, OthersKeepOwn DEF IInv, OthersSame
  <2> QED BY <2>1, <2>2
<1> QED BY <1>1 DEF IInv

\* The tab bar a step puts up, with the call it makes.
LEMMA PresentShape ==
  ASSUME Shape, NEW p \in Phones, PresentTabBar(p)
  PROVE  /\ tab' = [q \in Phones |->
                      [uid |-> tab'[q].uid, currentDevice |-> tab'[q].currentDevice,
                       devices |-> tab'[q].devices, chosenDevice |-> tab'[q].chosenDevice,
                       viewControllers |-> tab'[q].viewControllers]]
         /\ tab'[p].uid = account[p] /\ tab'[p].chosenDevice = None
         /\ \A q \in Phones \ {p} : tab'[q] = tab[q]
         /\ screen' = [screen EXCEPT ![p] = "tabBar"]
         /\ call' = [call EXCEPT ![p] = "getUser"]
<1> DEFINE bar == NewTabBar(account[p])
<1>1. tab' = [q \in Phones |-> IF q = p THEN bar ELSE tab[q]]
  BY DEF PresentTabBar, Shape
<1>2. /\ bar = [uid |-> account[p], currentDevice |-> None, devices |-> {},
                chosenDevice |-> None, viewControllers |-> FALSE]
      /\ screen' = [screen EXCEPT ![p] = "tabBar"]
      /\ call' = [call EXCEPT ![p] = "getUser"]
  BY DEF PresentTabBar, NewTabBar, Show
<1> HIDE DEF bar
<1>3. \A q \in Phones :
        tab'[q] = [uid |-> tab'[q].uid, currentDevice |-> tab'[q].currentDevice,
                   devices |-> tab'[q].devices, chosenDevice |-> tab'[q].chosenDevice,
                   viewControllers |-> tab'[q].viewControllers]
  BY <1>1, <1>2 DEF Shape
<1> QED BY <1>1, <1>2, <1>3

LEMMA PresentIInv ==
  ASSUME IInv, NEW p \in Phones, PresentTabBar(p), account[p] # None,
         owner' = owner, account' = account, devices' = devices
  PROVE  IInv'
<1>1. Shape
  BY DEF IInv
<1>2. Shape'
  <2>1. screen' \in [Phones -> Screens] /\ call' \in [Phones -> Calls]
    BY <1>1, PresentShape DEF Shape, Screens, Calls
  <2> QED BY <1>1, <2>1, PresentShape DEF Shape
<1>3. OthersSame(p)
  BY <1>1, PresentShape DEF Shape, OthersSame
<1>4. Own(p)'
  BY <1>1, PresentShape DEF Shape, Own, CallOnScreen, TabIsOwn, ListIsOwn
<1> QED BY <1>2, <1>3, <1>4, LocalStep

\* A step that shows another screen over the tab bar there is, with a call
\* that belongs to it, keeps the invariant if what it shows is the user's.
LEMMA ShowIInv ==
  ASSUME IInv, NEW p \in Phones, NEW s \in Screens, NEW c \in Calls, Show(p, s, c),
         owner' = owner, tab' = tab,
         account' \in [Phones -> Users \cup {None}],
         devices' \in [Phones -> SUBSET Devices],
         \A q \in Phones \ {p} : account'[q] = account[q] /\ devices'[q] = devices[q],
         c = "checkUser" => s = "login" /\ account'[p] # None,
         c \in {"getUser", "getDevices", "getRides"} => s = "tabBar",
         c = "loadDevices" => s = "devices",
         s \in {"tabBar", "devices"} =>
           screen[p] \in {"tabBar", "devices"} /\ account'[p] = account[p],
         s = "devices" => \A d \in devices'[p] : owner[d] = account[p]
  PROVE  IInv'
<1>1. /\ screen' = [screen EXCEPT ![p] = s] /\ call' = [call EXCEPT ![p] = c]
      /\ Shape
  BY DEF Show, IInv
<1>2. Shape' /\ OthersSame(p) /\ screen'[p] = s /\ call'[p] = c
  BY <1>1 DEF Shape, OthersSame
<1>3. CallOnScreen(p)'
  BY <1>2 DEF CallOnScreen
<1>4. TabIsOwn(p)'
  BY <1>2 DEF IInv, Own, TabIsOwn
<1>5. ListIsOwn(p)'
  BY <1>2 DEF ListIsOwn
<1> QED BY <1>2, <1>3, <1>4, <1>5, LocalStep DEF Own

-----------------------------------------------------------------------------
LEMMA LaunchIInv ==
  ASSUME IInv, NEW p \in Phones, Launch(p) PROVE IInv'
<1>1. owner' = owner /\ account' = account /\ devices' = devices
  BY DEF Launch, server
<1>2. CASE account[p] # None
  BY <1>1, <1>2, PresentIInv DEF Launch
<1>3. CASE account[p] = None
  <2>1. Show(p, "login", "none") /\ tab' = tab
    BY <1>3 DEF Launch
  <2> QED BY <1>1, <2>1, ShowIInv DEF IInv, Shape, Screens, Calls
<1> QED BY <1>2, <1>3

LEMMA KillIInv ==
  ASSUME IInv, NEW p \in Phones, Kill(p) PROVE IInv'
<1>1. /\ Show(p, "off", "none")
      /\ owner' = owner /\ account' = account /\ devices' = devices /\ tab' = tab
  BY DEF Kill, server
<1> QED BY <1>1, ShowIInv DEF IInv, Shape, Screens, Calls

LEMMA SignInIInv ==
  ASSUME IInv, NEW p \in Phones, NEW uid \in Users, SignIn(p, uid) PROVE IInv'
<1>1. /\ Show(p, "login", "checkUser") /\ account' = [account EXCEPT ![p] = uid]
      /\ owner' = owner /\ devices' = devices /\ tab' = tab
  BY DEF SignIn, server
<1>2. account'[p] = uid /\ uid # None
  BY <1>1, DistinctAssumption DEF IInv, Shape
<1> QED BY <1>1, <1>2, ShowIInv DEF IInv, Shape, Screens, Calls

LEMMA checkUserIInv ==
  ASSUME IInv, NEW p \in Phones, checkUser(p) PROVE IInv'
<1>1. /\ PresentTabBar(p) /\ call[p] = "checkUser"
      /\ owner' = owner /\ account' = account /\ devices' = devices
  BY DEF checkUser, server
<1>2. account[p] # None
  BY <1>1 DEF IInv, Own, CallOnScreen
<1> QED BY <1>1, <1>2, PresentIInv

LEMMA CrashIInv ==
  ASSUME IInv, NEW p \in Phones, Crash(p),
         owner' = owner, account' = account, devices' = devices
  PROVE  IInv'
<1>1. Show(p, "off", "none") /\ tab' = tab
  BY DEF Crash
<1> QED BY <1>1, ShowIInv DEF IInv, Shape, Screens, Calls

LEMMA GiveUpIInv ==
  ASSUME IInv, NEW p \in Phones, GiveUp(p),
         owner' = owner, account' = account, devices' = devices
  PROVE  IInv'
<1>1. Show(p, screen[p], "none") /\ tab' = tab
  BY DEF GiveUp
<1>2. screen[p] \in Screens /\ "none" \in Calls
  BY DEF IInv, Shape, Calls
<1>3. screen[p] = "devices" => \A d \in devices'[p] : owner[d] = account[p]
  BY DEF IInv, Own, ListIsOwn
<1> QED BY <1>1, <1>2, <1>3, ShowIInv DEF IInv, Shape

LEMMA ReadErrorIInv ==
  ASSUME IInv, NEW p \in Phones, ReadError(p) PROVE IInv'
<1>1. owner' = owner /\ account' = account /\ devices' = devices
  BY DEF ReadError, server
<1> QED BY <1>1, CrashIInv, GiveUpIInv DEF ReadError

\* A load of the chain changes the tab bar of its own phone, not its uid, and
\* chooses a device of that user if any.
LEMMA LoadIInv ==
  ASSUME IInv, NEW p \in Phones, NEW c \in Calls, screen[p] = "tabBar",
         Show(p, "tabBar", c), c \in {"none", "getDevices", "getRides"},
         owner' = owner, account' = account, devices' = devices,
         NEW bar, tab' = [tab EXCEPT ![p] = bar],
         bar = [uid |-> tab[p].uid, currentDevice |-> bar.currentDevice,
                devices |-> bar.devices, chosenDevice |-> bar.chosenDevice,
                viewControllers |-> bar.viewControllers],
         bar.chosenDevice \in {tab[p].chosenDevice, None}
           \/ (bar.chosenDevice \in Devices /\ owner[bar.chosenDevice] = tab[p].uid)
  PROVE  IInv'
<1>1. /\ screen' = [screen EXCEPT ![p] = "tabBar"] /\ call' = [call EXCEPT ![p] = c]
      /\ Shape
  BY DEF Show, IInv
<1>2. tab' = [q \in Phones |-> IF q = p THEN bar ELSE tab[q]]
  BY <1>1 DEF Shape
<1>3. \A q \in Phones :
        tab'[q] = [uid |-> tab'[q].uid, currentDevice |-> tab'[q].currentDevice,
                   devices |-> tab'[q].devices, chosenDevice |-> tab'[q].chosenDevice,
                   viewControllers |-> tab'[q].viewControllers]
  BY <1>1, <1>2 DEF Shape
<1>4. screen' \in [Phones -> Screens] /\ call' \in [Phones -> Calls]
  BY <1>1 DEF Shape, Screens
<1>5. Shape'
  BY <1>1, <1>2, <1>3, <1>4 DEF Shape
<1>6. /\ OthersSame(p) /\ screen'[p] = "tabBar" /\ call'[p] = c
      /\ tab'[p] = bar /\ bar.uid = tab[p].uid
  BY <1>1, <1>2 DEF Shape, OthersSame
<1>7. TabIsOwn(p)'
  BY <1>6 DEF IInv, Own, TabIsOwn
<1>8. CallOnScreen(p)' /\ ListIsOwn(p)'
  BY <1>6 DEF CallOnScreen, ListIsOwn
<1> QED BY <1>5, <1>6, <1>7, <1>8, LocalStep DEF Own

\* What EXCEPT makes of a tab bar.
LEMMA TabBarExcept ==
  ASSUME NEW bar, bar = [uid |-> bar.uid, currentDevice |-> bar.currentDevice,
                       devices |-> bar.devices, chosenDevice |-> bar.chosenDevice,
                       viewControllers |-> bar.viewControllers],
         NEW x
  PROVE  /\ [bar EXCEPT !.currentDevice = x] =
              [uid |-> bar.uid, currentDevice |-> x, devices |-> bar.devices,
               chosenDevice |-> bar.chosenDevice, viewControllers |-> bar.viewControllers]
         /\ [bar EXCEPT !.viewControllers = x] =
              [uid |-> bar.uid, currentDevice |-> bar.currentDevice,
               devices |-> bar.devices, chosenDevice |-> bar.chosenDevice,
               viewControllers |-> x]
         /\ [bar EXCEPT !.devices = x] =
              [uid |-> bar.uid, currentDevice |-> bar.currentDevice, devices |-> x,
               chosenDevice |-> bar.chosenDevice, viewControllers |-> bar.viewControllers]
         /\ [bar EXCEPT !.chosenDevice = x] =
              [uid |-> bar.uid, currentDevice |-> bar.currentDevice,
               devices |-> bar.devices, chosenDevice |-> x,
               viewControllers |-> bar.viewControllers]
<1>1. [bar EXCEPT !.currentDevice = x] =
        [uid |-> bar.uid, currentDevice |-> x, devices |-> bar.devices,
         chosenDevice |-> bar.chosenDevice, viewControllers |-> bar.viewControllers]
  OBVIOUS
<1>2. [bar EXCEPT !.viewControllers = x] =
        [uid |-> bar.uid, currentDevice |-> bar.currentDevice,
         devices |-> bar.devices, chosenDevice |-> bar.chosenDevice,
         viewControllers |-> x]
  OBVIOUS
<1>3. [bar EXCEPT !.devices = x] =
        [uid |-> bar.uid, currentDevice |-> bar.currentDevice, devices |-> x,
         chosenDevice |-> bar.chosenDevice, viewControllers |-> bar.viewControllers]
  OBVIOUS
<1>4. [bar EXCEPT !.chosenDevice = x] =
        [uid |-> bar.uid, currentDevice |-> bar.currentDevice,
         devices |-> bar.devices, chosenDevice |-> x,
         viewControllers |-> bar.viewControllers]
  OBVIOUS
<1> QED BY <1>1, <1>2, <1>3, <1>4

LEMMA getUserIInv ==
  ASSUME IInv, NEW p \in Phones, getUser(p) PROVE IInv'
<1> DEFINE document == UserDocument(p, tab[p].uid)
<1>1. /\ call[p] = "getUser"
      /\ owner' = owner /\ account' = account /\ devices' = devices
      /\ \/ Crash(p)
         \/ /\ tab' = [tab EXCEPT ![p].currentDevice = document.currentDevice]
            /\ Show(p, "tabBar", "getDevices")
  BY DEF getUser, server
<1>2. screen[p] = "tabBar" /\ Shape
  BY <1>1 DEF IInv, Own, CallOnScreen
<1> HIDE DEF document
<1>3. ASSUME tab' = [tab EXCEPT ![p].currentDevice = document.currentDevice],
             Show(p, "tabBar", "getDevices")
      PROVE  IInv'
  <2> DEFINE bar == [tab[p] EXCEPT !.currentDevice = document.currentDevice]
  <2>1. tab' = [tab EXCEPT ![p] = bar]
    BY <1>3
  <2>2. /\ bar = [uid |-> tab[p].uid, currentDevice |-> bar.currentDevice,
                  devices |-> bar.devices, chosenDevice |-> bar.chosenDevice,
                  viewControllers |-> bar.viewControllers]
        /\ bar.chosenDevice = tab[p].chosenDevice
    <3>1. tab[p] = [uid |-> tab[p].uid, currentDevice |-> tab[p].currentDevice,
                    devices |-> tab[p].devices, chosenDevice |-> tab[p].chosenDevice,
                    viewControllers |-> tab[p].viewControllers]
      BY <1>2 DEF Shape
    <3>2. bar = [uid |-> tab[p].uid, currentDevice |-> document.currentDevice,
                 devices |-> tab[p].devices, chosenDevice |-> tab[p].chosenDevice,
                 viewControllers |-> tab[p].viewControllers]
      BY <3>1, TabBarExcept
    <3> HIDE DEF bar
    <3> QED BY <3>2
  <2> HIDE DEF bar
  <2>3. "getDevices" \in Calls
    BY DEF Calls
  <2> QED BY <1>1, <1>2, <1>3, <2>1, <2>2, <2>3, LoadIInv
<1> QED BY <1>1, <1>3, CrashIInv

LEMMA getDevicesIInv ==
  ASSUME IInv, NEW p \in Phones, getDevices(p) PROVE IInv'
<1> DEFINE found == DevicesOf(tab[p].uid)
<1>1. PICK d \in loadCurrDev(tab[p].currentDevice, found) :
        tab' = [tab EXCEPT ![p].devices = found, ![p].chosenDevice = d]
  BY DEF getDevices
<1>2. /\ call[p] = "getDevices" /\ Show(p, "tabBar", "getRides")
      /\ owner' = owner /\ account' = account /\ devices' = devices
  BY DEF getDevices, server
<1>3. screen[p] = "tabBar" /\ Shape
  BY <1>2 DEF IInv, Own, CallOnScreen
<1>4. d = None \/ (d \in Devices /\ owner[d] = tab[p].uid)
  BY <1>1 DEF loadCurrDev, DevicesOf
<1> HIDE DEF found
<1> DEFINE bar == [tab[p] EXCEPT !.devices = found, !.chosenDevice = d]
<1>5. /\ bar = [uid |-> tab[p].uid, currentDevice |-> bar.currentDevice,
                devices |-> bar.devices, chosenDevice |-> bar.chosenDevice,
                viewControllers |-> bar.viewControllers]
      /\ bar.chosenDevice = d
  <2>1. tab[p] = [uid |-> tab[p].uid, currentDevice |-> tab[p].currentDevice,
                  devices |-> tab[p].devices, chosenDevice |-> tab[p].chosenDevice,
                  viewControllers |-> tab[p].viewControllers]
    BY <1>3 DEF Shape
  <2>2. bar = [uid |-> tab[p].uid, currentDevice |-> tab[p].currentDevice,
               devices |-> found, chosenDevice |-> d,
               viewControllers |-> tab[p].viewControllers]
    <3> DEFINE mid == [tab[p] EXCEPT !.devices = found]
    <3>1. mid = [uid |-> tab[p].uid, currentDevice |-> tab[p].currentDevice,
                 devices |-> found, chosenDevice |-> tab[p].chosenDevice,
                 viewControllers |-> tab[p].viewControllers]
      BY <2>1, TabBarExcept
    <3>2. bar = [mid EXCEPT !.chosenDevice = d]
      BY Zenon
    <3> HIDE DEF mid, bar
    <3> QED BY <3>1, <3>2
  <2> HIDE DEF bar
  <2> QED BY <2>2
<1>6. tab' = [tab EXCEPT ![p] = bar]
  BY <1>1, <1>3 DEF Shape
<1> HIDE DEF bar
<1>7. "getRides" \in Calls
  BY DEF Calls
<1> QED BY <1>2, <1>3, <1>4, <1>5, <1>6, <1>7, LoadIInv

LEMMA getRidesIInv ==
  ASSUME IInv, NEW p \in Phones, getRides(p) PROVE IInv'
<1> DEFINE bar == [tab[p] EXCEPT !.viewControllers = TRUE]
<1>1. /\ call[p] = "getRides" /\ Show(p, "tabBar", "none")
      /\ tab' = [tab EXCEPT ![p] = bar]
      /\ owner' = owner /\ account' = account /\ devices' = devices
  BY DEF getRides, server
<1>2. screen[p] = "tabBar" /\ Shape
  BY <1>1 DEF IInv, Own, CallOnScreen
<1>3. /\ bar = [uid |-> tab[p].uid, currentDevice |-> bar.currentDevice,
                devices |-> bar.devices, chosenDevice |-> bar.chosenDevice,
                viewControllers |-> bar.viewControllers]
      /\ bar.chosenDevice = tab[p].chosenDevice
  <2>1. tab[p] = [uid |-> tab[p].uid, currentDevice |-> tab[p].currentDevice,
                  devices |-> tab[p].devices, chosenDevice |-> tab[p].chosenDevice,
                  viewControllers |-> tab[p].viewControllers]
    BY <1>2 DEF Shape
  <2>2. bar = [uid |-> tab[p].uid, currentDevice |-> tab[p].currentDevice,
               devices |-> tab[p].devices, chosenDevice |-> tab[p].chosenDevice,
               viewControllers |-> TRUE]
    BY <2>1, TabBarExcept
  <2> HIDE DEF bar
  <2> QED BY <2>2
<1> HIDE DEF bar
<1>4. "none" \in Calls
  BY DEF Calls
<1> QED BY <1>1, <1>2, <1>3, <1>4, LoadIInv

-----------------------------------------------------------------------------
LEMMA showDevicesIInv ==
  ASSUME IInv, NEW p \in Phones, showDevices(p) PROVE IInv'
<1>1. /\ screen[p] = "tabBar" /\ Show(p, "devices", "loadDevices")
      /\ devices' = [devices EXCEPT ![p] = {}]
      /\ owner' = owner /\ account' = account /\ tab' = tab
  BY DEF showDevices, server
<1>2. /\ devices' \in [Phones -> SUBSET Devices] /\ devices'[p] = {}
      /\ \A q \in Phones \ {p} : devices'[q] = devices[q]
  BY <1>1 DEF IInv, Shape
<1> QED BY <1>1, <1>2, ShowIInv DEF IInv, Shape, Screens, Calls

LEMMA loadDevicesIInv ==
  ASSUME IInv, NEW p \in Phones, loadDevices(p) PROVE IInv'
<1>1. /\ call[p] = "loadDevices" /\ Show(p, "devices", "none")
      /\ devices' = [devices EXCEPT ![p] = DevicesOf(account[p])]
      /\ owner' = owner /\ account' = account /\ tab' = tab
  BY DEF loadDevices, server
<1>2. screen[p] = "devices"
  BY <1>1 DEF IInv, Own, CallOnScreen
<1>3. DevicesOf(account[p]) \subseteq Devices
  BY DEF DevicesOf
<1>4. /\ devices' \in [Phones -> SUBSET Devices] /\ devices'[p] = DevicesOf(account[p])
      /\ \A q \in Phones \ {p} : devices'[q] = devices[q]
  BY <1>1, <1>3 DEF IInv, Shape
<1>5. \A d \in devices'[p] : owner[d] = account[p]
  BY <1>4 DEF DevicesOf
<1> QED BY <1>1, <1>2, <1>4, <1>5, ShowIInv DEF IInv, Shape, Screens, Calls

LEMMA closeMenuIInv ==
  ASSUME IInv, NEW p \in Phones, closeMenu(p) PROVE IInv'
<1>1. /\ screen[p] = "devices" /\ Show(p, "tabBar", "none")
      /\ owner' = owner /\ account' = account /\ tab' = tab /\ devices' = devices
  BY DEF closeMenu, server
<1> QED BY <1>1, ShowIInv DEF IInv, Shape, Screens, Calls

LEMMA didSelectItemIInv ==
  ASSUME IInv, NEW p \in Phones, NEW d \in Devices, didSelectItem(p, d) PROVE IInv'
<1>1. /\ screen[p] = "devices" /\ PresentTabBar(p)
      /\ owner' = owner /\ account' = account /\ devices' = devices
  BY DEF didSelectItem, server
<1>2. account[p] # None
  BY <1>1 DEF IInv, Own, TabIsOwn
<1> QED BY <1>1, <1>2, PresentIInv

LEMMA userLogoutIInv ==
  ASSUME IInv, NEW p \in Phones, userLogout(p) PROVE IInv'
<1>1. /\ Show(p, "login", "none")
      /\ account' = [account EXCEPT ![p] = None] \/ account' = account
      /\ owner' = owner /\ tab' = tab /\ devices' = devices
  BY DEF userLogout, server
<1>2. /\ account' \in [Phones -> Users \cup {None}]
      /\ \A q \in Phones \ {p} : account'[q] = account[q]
  BY <1>1 DEF IInv, Shape
<1> QED BY <1>1, <1>2, ShowIInv DEF IInv, Shape, Screens, Calls

LEMMA DeliverIInv ==
  ASSUME IInv, NEW p \in Phones, Deliver(p) PROVE IInv'
<1>1. /\ owner' = owner /\ account' = account /\ screen' = screen /\ call' = call
      /\ tab' = tab /\ devices' = devices
  BY DEF Deliver, ServerApplies, WriteResult, StreamRestarts, ui, server
<1> QED BY <1>1 DEF IInv, Shape, Own, CallOnScreen, TabIsOwn, ListIsOwn

\* A device gets an owner once: those of a home or of a list keep theirs.
LEMMA RegisterIInv ==
  ASSUME IInv, NEW uid \in Users, NEW d \in Devices, Register(uid, d) PROVE IInv'
<1>1. /\ owner[d] = None /\ owner' = [owner EXCEPT ![d] = uid]
      /\ account' = account /\ screen' = screen /\ call' = call
      /\ tab' = tab /\ devices' = devices
  BY DEF Register, ui
<1>2. owner' \in [Devices -> Users \cup {None}]
      /\ \A e \in Devices : owner[e] # None => owner'[e] = owner[e]
  BY <1>1 DEF IInv, Shape
<1>3. Shape'
  BY <1>1, <1>2 DEF IInv, Shape
<1>4. ASSUME NEW p \in Phones PROVE Own(p)'
  <2>1. CallOnScreen(p) /\ TabIsOwn(p) /\ ListIsOwn(p) /\ devices[p] \subseteq Devices
    BY DEF IInv, Own, Shape
  <2>2. CallOnScreen(p)'
    BY <1>1, <2>1 DEF CallOnScreen
  <2>3. TabIsOwn(p)'
    BY <1>1, <1>2, <2>1 DEF TabIsOwn
  <2>4. ListIsOwn(p)'
    BY <1>1, <1>2, <2>1 DEF ListIsOwn, TabIsOwn
  <2> QED BY <2>2, <2>3, <2>4 DEF Own
<1> QED BY <1>3, <1>4 DEF IInv

-----------------------------------------------------------------------------
LEMMA StepIInv ==
  ASSUME IInv, [Next]_vars PROVE IInv'
<1>1. ASSUME NEW p \in Phones, Launch(p) PROVE IInv'
  BY <1>1, LaunchIInv
<1>2. ASSUME NEW p \in Phones, Kill(p) PROVE IInv'
  BY <1>2, KillIInv
<1>3. ASSUME NEW p \in Phones, Tap(p) PROVE IInv'
  BY <1>3, SignInIInv, showDevicesIInv, closeMenuIInv, userLogoutIInv,
     didSelectItemIInv DEF Tap
<1>4. ASSUME NEW p \in Phones, Answer(p) PROVE IInv'
  BY <1>4, checkUserIInv, getUserIInv, getDevicesIInv, getRidesIInv,
     loadDevicesIInv DEF Answer
<1>5. ASSUME NEW p \in Phones, ReadError(p) PROVE IInv'
  BY <1>5, ReadErrorIInv
<1>6. ASSUME NEW p \in Phones, Deliver(p) PROVE IInv'
  BY <1>6, DeliverIInv
<1>7. ASSUME NEW uid \in Users, NEW d \in Devices, Register(uid, d) PROVE IInv'
  BY <1>7, RegisterIInv
<1>8. CASE UNCHANGED vars
  BY <1>8 DEF vars, server, ui, IInv, Shape, Own, CallOnScreen, TabIsOwn, ListIsOwn
<1> QED BY <1>1, <1>2, <1>3, <1>4, <1>5, <1>6, <1>7, <1>8 DEF Next

LEMMA IInvHomeIsOwn == IInv => HomeIsOwn
  BY DEF IInv, Own, TabIsOwn, ListIsOwn, HomeIsOwn, Home

-----------------------------------------------------------------------------
(* View applies the writes of a queue one after the other.  It is a fold,   *)
(* a CHOOSE of a function over the subsets of the queue's places.          *)

FoldOnce(docs, q, g, s) ==
  IF s = {} THEN docs ELSE Applied(g[s \ {Max(s)}], q[Max(s)])

Folded(docs, q, g) == g = [s \in SUBSET DOMAIN q |-> FoldOnce(docs, q, g, s)]

LEMMA MaxOfPlaces ==
  ASSUME NEW n \in Nat, NEW s \in SUBSET (1 .. n), s # {}
  PROVE  Max(s) \in s
<1>1. \E m \in s : \A k \in s : k <= m
  <2>1. s \subseteq Nat /\ \A k \in s : k <= n
    OBVIOUS
  <2>2. QED
    BY <2>1, GreatestNatural
<1>2. \E m \in s : \A k \in s : m >= k
  BY <1>1
<1>3. QED
  BY <1>2 DEF Max

LEMMA FoldedExists ==
  ASSUME NEW W, NEW q \in Seq(W), NEW docs
  PROVE  \E g : Folded(docs, q, g)
<1> DEFINE S == DOMAIN q
           Upto(k) == \E g : \A s \in SUBSET S :
                        Cardinality(s) <= k => g[s] = FoldOnce(docs, q, g, s)
           Bad == { k \in Nat : ~Upto(k) }
<1>1. S = 1 .. Len(q) /\ Len(q) \in Nat /\ IsFiniteSet(S)
  BY FS_Interval
<1>2. ASSUME NEW s \in SUBSET S
      PROVE  /\ IsFiniteSet(s) /\ Cardinality(s) \in Nat /\ Cardinality(s) <= Cardinality(S)
             /\ s # {} => /\ Max(s) \in s /\ s \ {Max(s)} \in SUBSET S
                          /\ Cardinality(s \ {Max(s)}) = Cardinality(s) - 1
  <2>1. IsFiniteSet(s) /\ Cardinality(s) \in Nat /\ Cardinality(s) <= Cardinality(S)
    BY <1>1, FS_Subset, FS_CardinalityType
  <2>2. s # {} => Max(s) \in s
    BY <1>1, MaxOfPlaces
  <2>3. QED
    BY <2>1, <2>2, FS_RemoveElement
<1> HIDE DEF S
<1>3. Upto(0)
  <2> DEFINE g == [s \in SUBSET S |-> docs]
  <2>1. ASSUME NEW s \in SUBSET S, Cardinality(s) <= 0
        PROVE  g[s] = FoldOnce(docs, q, g, s)
    <3>1. IsFiniteSet(s) /\ Cardinality(s) \in Nat
      BY <1>2
    <3>2. Cardinality(s) = 0
      BY <2>1, <3>1
    <3>3. s = {}
      BY <3>1, <3>2, FS_EmptySet
    <3>4. QED
      BY <3>3 DEF FoldOnce
  <2> HIDE DEF g
  <2>2. QED
    BY <2>1
<1>4. ASSUME NEW k \in Nat, Upto(k) PROVE Upto(k + 1)
  <2>1. PICK g : \A s \in SUBSET S :
          Cardinality(s) <= k => g[s] = FoldOnce(docs, q, g, s)
    BY <1>4
  <2> DEFINE h == [s \in SUBSET S |-> FoldOnce(docs, q, g, s)]
  <2>2. ASSUME NEW s \in SUBSET S, Cardinality(s) <= k + 1
        PROVE  h[s] = FoldOnce(docs, q, h, s)
    <3>1. CASE s = {}
      BY <3>1 DEF FoldOnce
    <3>2. CASE s # {}
      <4> DEFINE t == s \ {Max(s)}
      <4>1. t \in SUBSET S /\ Cardinality(t) <= k
        BY <1>2, <2>2, <3>2
      <4>2. h[t] = g[t]
        BY <2>1, <4>1
      <4>3. QED
        BY <3>2, <4>2 DEF FoldOnce
    <3>3. QED
      BY <3>1, <3>2
  <2> HIDE DEF h
  <2>3. QED
    BY <2>2
<1> HIDE DEF Upto
<1>5. \A k \in Nat : Upto(k)
  <2> SUFFICES ASSUME Bad # {} PROVE FALSE
    OBVIOUS
  <2>1. PICK k \in Bad : \A l \in Bad : k <= l
    BY LeastNatural
  <2>2. k # 0 /\ k \in Nat /\ ~Upto(k)
    BY <1>3
  <2>3. k - 1 \in Nat /\ k - 1 \notin Bad
    BY <2>1, <2>2
  <2>4. Upto(k - 1)
    BY <2>3
  <2>5. Upto((k - 1) + 1)
    BY <1>4, <2>3, <2>4
  <2>6. QED
    BY <2>2, <2>5
<1>6. Upto(Cardinality(S))
  <2>1. Cardinality(S) \in Nat
    BY <1>2
  <2>2. QED
    BY <1>5, <2>1
<1>7. PICK g : \A s \in SUBSET S : g[s] = FoldOnce(docs, q, g, s)
  BY <1>2, <1>6 DEF Upto
<1> DEFINE h == [s \in SUBSET S |-> g[s]]
<1>8. ASSUME NEW s \in SUBSET S PROVE h[s] = FoldOnce(docs, q, h, s)
  <2>1. s # {} => h[s \ {Max(s)}] = g[s \ {Max(s)}]
    BY <1>2
  <2>2. QED
    BY <1>7, <2>1 DEF FoldOnce
<1>9. h = [s \in SUBSET S |-> FoldOnce(docs, q, h, s)]
  BY <1>8
<1>10. Folded(docs, q, h)
  BY <1>9 DEF Folded, S
<1>11. QED
  BY <1>10

\* The documents after each of the first n writes.
Steps(q, n, h) == \A k \in 1 .. n : h[k] = Applied(h[k - 1], q[k])

Chain(docs, q, h) == h[0] = docs /\ Steps(q, Len(q), h)

LEMMA ViewIsChain ==
  ASSUME NEW W, NEW q \in Seq(W), NEW docs
  PROVE  \E h : Chain(docs, q, h) /\ View(docs, q) = h[Len(q)]
<1> DEFINE S == DOMAIN q
           n == Len(q)
           E(g) == g = [s \in SUBSET S |->
                          IF s = {} THEN docs ELSE Applied(g[s \ {Max(s)}], q[Max(s)])]
<1>1. S = 1 .. n /\ n \in Nat
  OBVIOUS
<1>2. View(docs, q) = (CHOOSE g : E(g))[S]
  BY Zenon DEF View, FoldLeft, MapThenFoldSet
<1>3. \A g : E(g) <=> Folded(docs, q, g)
  BY DEF Folded, FoldOnce
<1> HIDE DEF E
<1>4. Folded(docs, q, CHOOSE g : E(g))
  BY <1>3, FoldedExists
<1>5. PICK g : g = (CHOOSE f : E(f))
  OBVIOUS
<1>6. Folded(docs, q, g) /\ View(docs, q) = g[1 .. n]
  BY <1>1, <1>2, <1>4, <1>5
<1> HIDE DEF S, n
<1>7. \A s \in SUBSET (1 .. n) : g[s] = FoldOnce(docs, q, g, s)
  BY <1>1, <1>6 DEF Folded, S
<1> DEFINE h == [k \in 0 .. n |-> g[1 .. k]]
<1>8. h[0] = docs
  <2>1. 1 .. 0 = {} /\ 0 \in 0 .. n
    BY <1>1
  <2>2. QED
    BY <1>7, <2>1 DEF FoldOnce
<1>9. ASSUME NEW k \in 1 .. n PROVE h[k] = Applied(h[k - 1], q[k])
  <2>1. /\ k \in 1 .. k /\ \A j \in 1 .. k : k >= j
        /\ 1 .. k \in SUBSET (1 .. n) /\ k - 1 \in 0 .. n /\ k \in 0 .. n /\ k \in Nat
    BY <1>1
  <2>2. Max(1 .. k) = k
    <3>1. Max(1 .. k) \in 1 .. k /\ \A j \in 1 .. k : Max(1 .. k) >= j
      BY <2>1 DEF Max
    <3>2. Max(1 .. k) >= k /\ Max(1 .. k) <= k
      BY <2>1, <3>1
    <3>3. Max(1 .. k) \in Int
      BY <3>1
    <3>4. QED
      BY <2>1, <3>2, <3>3
  <2>3. (1 .. k) \ {k} = 1 .. k - 1
    BY <2>1
  <2>4. g[1 .. k] = Applied(g[(1 .. k) \ {k}], q[k])
    BY <1>7, <2>1, <2>2 DEF FoldOnce
  <2>5. h[k] = g[1 .. k] /\ h[k - 1] = g[1 .. k - 1]
    BY <2>1
  <2>6. QED
    BY <2>3, <2>4, <2>5
<1>10. Chain(docs, q, h) /\ View(docs, q) = h[n]
  <2>1. h[n] = g[1 .. n]
    BY <1>1
  <2>2. QED
    BY <1>6, <1>8, <1>9, <2>1 DEF Chain, Steps, n
<1>11. QED
  BY <1>10 DEF n

\* What holds before the first write and is kept by each holds after the last.
LEMMA ChainKeeps ==
  ASSUME NEW n \in Nat, NEW Holds, Holds \subseteq 0 .. n,
         0 \in Holds, \A k \in 1 .. n : k - 1 \in Holds => k \in Holds
  PROVE  Holds = 0 .. n
<1> DEFINE Bad == (0 .. n) \ Holds
<1>1. SUFFICES ASSUME Bad # {} PROVE FALSE
  OBVIOUS
<1>2. Bad \subseteq Nat
  OBVIOUS
<1>3. PICK k \in Bad : \A l \in Bad : k <= l
  BY <1>1, <1>2, LeastNatural
<1>4. k \in 1 .. n /\ k \notin Holds /\ k - 1 \in 0 .. n
  BY <1>3
<1>5. k - 1 \notin Bad
  BY <1>3, <1>4
<1>6. QED
  BY <1>4, <1>5

-----------------------------------------------------------------------------
Documents == [Users -> Profile \cup {Missing}]

\* What a write does to the documents.
LEMMA AppliedIsDocuments ==
  ASSUME NEW docs \in Documents, NEW w \in Writes
  PROVE  /\ Applied(docs, w) \in Documents
         /\ \A uid \in Users : uid # w.name => Applied(docs, w)[uid] = docs[uid]
         /\ w.kind = "setData" => Applied(docs, w)[w.name] \in Profile
         /\ w.kind = "updateData" /\ docs[w.name] = Missing => Applied(docs, w)[w.name] = Missing
         /\ w.kind = "updateData" /\ docs[w.name] # Missing =>
              Applied(docs, w)[w.name] \in Profile /\ Applied(docs, w)[w.name].currentDevice = w.data
         /\ w.name \in Users /\ w.kind \in {"setData", "updateData"}
<1>1. w.name \in Users /\ w.kind \in {"setData", "updateData"}
  BY DEF Writes
<1>2. CASE w.kind = "setData"
  <2>1. w.data \in Profile
    BY <1>2 DEF Writes
  <2>2. Applied(docs, w) = [docs EXCEPT ![w.name] = w.data]
    BY <1>2 DEF Applied
  <2>3. QED
    BY <1>1, <1>2, <2>1, <2>2 DEF Documents
<1>3. CASE w.kind = "updateData"
  <2>1. w.field = "currentDevice" /\ w.data \in Devices
    BY <1>3 DEF Writes
  <2>2. CASE docs[w.name] = Missing
    BY <1>1, <1>3, <2>2 DEF Applied
  <2>3. CASE docs[w.name] # Missing
    <3>1. docs[w.name] \in Profile
      BY <1>1, <2>3 DEF Documents
    <3> DEFINE new == [docs[w.name] EXCEPT ![w.field] = w.data]
    <3>2. new \in Profile /\ new.currentDevice = w.data
      BY <2>1, <3>1 DEF Profile
    <3>3. Applied(docs, w) = [docs EXCEPT ![w.name] = new]
      BY <1>3, <2>3 DEF Applied
    <3> HIDE DEF new
    <3>4. QED
      BY <1>1, <1>3, <2>3, <3>2, <3>3 DEF Documents
  <2>4. QED
    BY <2>2, <2>3
<1>4. QED
  BY <1>1, <1>2, <1>3

LEMMA ViewIsDocuments ==
  ASSUME NEW docs \in Documents, NEW q \in Seq(Writes)
  PROVE  View(docs, q) \in Documents
<1>1. PICK h : Chain(docs, q, h) /\ View(docs, q) = h[Len(q)]
  BY ViewIsChain
<1> DEFINE n == Len(q)
           Holds == { k \in 0 .. n : h[k] \in Documents }
<1>2. n \in Nat /\ \A k \in 1 .. n : q[k] \in Writes
  OBVIOUS
<1>3. h[0] = docs /\ \A k \in 1 .. n : h[k] = Applied(h[k - 1], q[k])
  BY <1>1 DEF Chain, Steps
<1> HIDE DEF n
<1>4. 0 \in Holds /\ Holds \subseteq 0 .. n
  BY <1>2, <1>3
<1>5. \A k \in 1 .. n : k - 1 \in Holds => k \in Holds
  BY <1>2, <1>3, AppliedIsDocuments
<1> HIDE DEF Holds
<1>6. Holds = 0 .. n
  BY <1>2, <1>4, <1>5, ChainKeeps
<1>7. n \in Holds
  BY <1>2, <1>6
<1>8. QED
  BY <1>1, <1>7 DEF Holds, n

\* What a write leaves of the document it is for.
Result(w) == IF w.kind = "setData" THEN w.data ELSE [currentDevice |-> w.data]

\* A queue of writes for one user's document, which it creates first, if at all,
\* and does create if there is none.
Orderly(doc, q, uid) ==
  /\ \A i \in 1 .. Len(q) : q[i].name = uid /\ (q[i].kind = "setData" => i = 1)
  /\ doc = Missing /\ q # <<>> => q[1].kind = "setData"

\* What such a queue leaves of the document.
Latest(doc, q) == IF q = <<>> THEN doc ELSE Result(q[Len(q)])

LEMMA MissingIsNoProfile == Missing \notin Profile
BY DistinctAssumption DEF Profile

LEMMA ResultIsProfile ==
  ASSUME NEW w \in Writes PROVE Result(w) \in Profile /\ Result(w) # Missing
<1>1. Result(w) \in Profile
  BY DEF Writes, Result, Profile
<1>2. QED
  BY <1>1, MissingIsNoProfile

LEMMA AppliedIsResult ==
  ASSUME NEW docs \in Documents, NEW w \in Writes,
         w.kind = "setData" \/ docs[w.name] # Missing
  PROVE  Applied(docs, w)[w.name] = Result(w)
<1>1. w.name \in Users /\ w.kind \in {"setData", "updateData"}
  BY DEF Writes
<1>2. CASE w.kind = "setData"
  BY <1>1, <1>2 DEF Applied, Result, Documents
<1>3. CASE w.kind = "updateData"
  <2>1. Applied(docs, w)[w.name] \in Profile /\ Applied(docs, w)[w.name].currentDevice = w.data
    BY <1>3, AppliedIsDocuments
  <2>2. Result(w) = [currentDevice |-> w.data]
    BY <1>3 DEF Result
  <2>3. QED
    BY <2>1, <2>2 DEF Profile
<1>4. QED
  BY <1>1, <1>2, <1>3

\* What a read answers.
LEMMA ViewIsLatest ==
  ASSUME NEW docs \in Documents, NEW q \in Seq(Writes), NEW uid \in Users,
         Orderly(docs[uid], q, uid)
  PROVE  View(docs, q)[uid] = Latest(docs[uid], q)
<1>1. PICK h : Chain(docs, q, h) /\ View(docs, q) = h[Len(q)]
  BY ViewIsChain
<1> DEFINE n == Len(q)
           Good(k) == h[k] \in Documents /\ (k # 0 => h[k][uid] = Result(q[k]))
           Holds == { k \in 0 .. n : Good(k) }
<1>2. /\ n \in Nat /\ \A k \in 1 .. n : q[k] \in Writes
      /\ n = 0 <=> q = <<>>
  OBVIOUS
<1>3. h[0] = docs /\ \A k \in 1 .. n : h[k] = Applied(h[k - 1], q[k])
  BY <1>1 DEF Chain, Steps
<1>4. /\ \A k \in 1 .. n : q[k].name = uid
      /\ docs[uid] = Missing /\ q # <<>> => q[1].kind = "setData"
  BY DEF Orderly
<1> HIDE DEF n
<1>5. 0 \in Holds /\ Holds \subseteq 0 .. n
  BY <1>2, <1>3
<1>6. ASSUME NEW k \in 1 .. n, k - 1 \in Holds PROVE k \in Holds
  <2>1. PICK before \in Documents : before = h[k - 1]
    BY <1>6
  <2>2. PICK w \in Writes : w = q[k]
    BY <1>2
  <2>3. w.name = uid /\ h[k] = Applied(before, w)
    BY <1>3, <1>4, <2>1, <2>2
  <2>4. w.kind = "setData" \/ before[uid] # Missing
    <3>1. CASE k = 1
      BY <1>2, <1>3, <1>4, <2>1, <2>2, <3>1
    <3>2. CASE k # 1
      <4>1. k - 1 \in 1 .. n /\ k - 1 # 0
        BY <1>2, <3>2
      <4>2. before[uid] = Result(q[k - 1]) /\ q[k - 1] \in Writes
        BY <1>2, <1>6, <2>1, <4>1
      <4>3. QED
        BY <4>2, ResultIsProfile
    <3>3. QED
      BY <3>1, <3>2
  <2>5. h[k] \in Documents /\ h[k][uid] = Result(q[k])
    <3>1. w.kind = "setData" \/ before[w.name] # Missing
      BY <2>3, <2>4
    <3>2. Applied(before, w) \in Documents
      BY AppliedIsDocuments
    <3>3. Applied(before, w)[w.name] = Result(w)
      BY <3>1, AppliedIsResult
    <3>4. QED
      BY <2>2, <2>3, <3>2, <3>3
  <2>6. k \in 0 .. n
    BY <1>2
  <2>7. QED
    BY <2>5, <2>6
<1> HIDE DEF Holds
<1>7. Holds = 0 .. n
  BY <1>2, <1>5, <1>6, ChainKeeps
<1>8. n \in Holds
  BY <1>2, <1>7
<1>9. View(docs, q)[uid] = h[n][uid] /\ Good(n)
  BY <1>1, <1>8 DEF Holds, n
<1>10. QED
  BY <1>2, <1>3, <1>9 DEF Latest, n

-----------------------------------------------------------------------------
(* Types.                                                                  *)

LEMMA ShowTypes ==
  ASSUME TypeOK, NEW p \in Phones, NEW s \in Screens, NEW c \in Calls, Show(p, s, c)
  PROVE  screen' \in [Phones -> Screens] /\ call' \in [Phones -> Calls]
BY DEF Show, TypeOK

LEMMA RestartTypes ==
  ASSUME TypeOK, NEW p \in Phones, Restart(p) PROVE sent' \in [Phones -> Nat]
BY DEF Restart, TypeOK

LEMMA WriteTypes ==
  ASSUME TypeOK, NEW p \in Phones, NEW uid \in Users, NEW w \in Writes, Write(p, uid, w)
  PROVE  queue' \in [Phones -> [Users -> Seq(Writes)]]
<1>1. queue' = [queue EXCEPT ![p] = [queue[p] EXCEPT ![uid] = Append(queue[p][uid], w)]]
  BY DEF Write, TypeOK
<1>2. queue[p] \in [Users -> Seq(Writes)]
  BY DEF TypeOK
<1>3. Append(queue[p][uid], w) \in Seq(Writes)
  BY <1>2, AppendProperties
<1>4. [queue[p] EXCEPT ![uid] = Append(queue[p][uid], w)] \in [Users -> Seq(Writes)]
  BY <1>2, <1>3
<1>5. QED
  BY <1>1, <1>4 DEF TypeOK

LEMMA TabBarTypes ==
  ASSUME NEW bar \in TabBars
  PROVE  /\ \A d \in Devices \cup {None} : [bar EXCEPT !.currentDevice = d] \in TabBars
         /\ \A d \in Devices \cup {None} : [bar EXCEPT !.chosenDevice = d] \in TabBars
         /\ \A found \in SUBSET Devices : [bar EXCEPT !.devices = found] \in TabBars
         /\ \A x \in BOOLEAN : [bar EXCEPT !.viewControllers = x] \in TabBars
BY DEF TabBars

LEMMA NewTabBarType == ASSUME NEW uid \in Users \cup {None} PROVE NewTabBar(uid) \in TabBars
BY DEF NewTabBar, TabBars

LEMMA PresentTypes ==
  ASSUME TypeOK, NEW p \in Phones, PresentTabBar(p)
  PROVE  /\ screen' \in [Phones -> Screens] /\ call' \in [Phones -> Calls]
         /\ tab' \in [Phones -> TabBars]
<1>1. "tabBar" \in Screens /\ "getUser" \in Calls
  BY DEF Screens, Calls
<1>2. Show(p, "tabBar", "getUser") /\ tab' = [tab EXCEPT ![p] = NewTabBar(account[p])]
  BY DEF PresentTabBar
<1>3. NewTabBar(account[p]) \in TabBars
  BY NewTabBarType DEF TypeOK
<1>4. tab' \in [Phones -> TabBars]
  BY <1>2, <1>3 DEF TypeOK
<1>5. QED
  BY <1>1, <1>2, <1>4, ShowTypes

LEMMA FaultTypes ==
  ASSUME TypeOK, NEW kind, Fault(kind) PROVE faults' \in 0 .. MaxFaults
BY BoundsAssumption DEF Fault, TypeOK

\* A phone that asks, or that shows a home, has somebody signed in.
LEMMA SomebodySignedIn ==
  ASSUME TypeOK, IInv, NEW p \in Phones,
         call[p] = "checkUser" \/ screen[p] \in {"tabBar", "devices"}
  PROVE  account[p] \in Users
BY DEF TypeOK, IInv, Own, CallOnScreen, TabIsOwn

LEMMA ReadTypes ==
  ASSUME TypeOK, NEW p \in Phones, NEW uid \in Users
  PROVE  UserDocument(p, uid) \in Profile \cup {Missing}
<1>1. users \in Documents /\ queue[p][uid] \in Seq(Writes)
  BY DEF TypeOK, Documents
<1>2. View(users, queue[p][uid]) \in Documents
  BY <1>1, ViewIsDocuments
<1>3. QED
  BY <1>2 DEF UserDocument, Documents

LEMMA InitTypeOK == Init => TypeOK
<1> SUFFICES ASSUME Init PROVE TypeOK
  OBVIOUS
<1>1. tab \in [Phones -> TabBars]
  BY NewTabBarType DEF Init
<1>2. queue \in [Phones -> [Users -> Seq(Writes)]]
  BY DEF Init
<1>3. choices \in 0 .. MaxChoices /\ faults \in 0 .. MaxFaults
  BY BoundsAssumption DEF Init
<1>4. QED
  BY <1>1, <1>2, <1>3 DEF Init, TypeOK, Screens, Calls

LEMMA TapTypeOK == ASSUME TypeOK, IInv, NEW p \in Phones, Tap(p) PROVE TypeOK'
<1>1. ASSUME NEW uid \in Users, SignIn(p, uid) PROVE TypeOK'
  <2>1. "login" \in Screens /\ "checkUser" \in Calls
    BY DEF Screens, Calls
  <2>2. Show(p, "login", "checkUser") /\ account' = [account EXCEPT ![p] = uid]
    BY <1>1 DEF SignIn
  <2>3. account' \in [Phones -> Users \cup {None}]
    BY <2>2 DEF TypeOK
  <2>4. QED
    BY <1>1, <2>1, <2>2, <2>3, ShowTypes, RestartTypes DEF SignIn, TypeOK, server, history
<1>2. CASE showDevices(p)
  <2>1. "devices" \in Screens /\ "loadDevices" \in Calls
    BY DEF Screens, Calls
  <2>2. Show(p, "devices", "loadDevices") /\ devices' = [devices EXCEPT ![p] = {}]
    BY <1>2 DEF showDevices
  <2>3. devices' \in [Phones -> SUBSET Devices]
    BY <2>2 DEF TypeOK
  <2>4. QED
    BY <1>2, <2>1, <2>2, <2>3, ShowTypes DEF showDevices, TypeOK, outbox, server, history
<1>3. CASE closeMenu(p)
  <2>1. "tabBar" \in Screens /\ "none" \in Calls
    BY DEF Screens, Calls
  <2>2. QED
    BY <1>3, <2>1, ShowTypes DEF closeMenu, TypeOK, outbox, server, history
<1>4. CASE userLogout(p)
  <2>1. "login" \in Screens /\ "none" \in Calls
    BY DEF Screens, Calls
  <2>2. account' \in [Phones -> Users \cup {None}]
    BY <1>4 DEF userLogout, TypeOK
  <2>3. faults' \in 0 .. MaxFaults
    BY <1>4, FaultTypes DEF userLogout, TypeOK
  <2>4. sent' \in [Phones -> Nat]
    BY <1>4, RestartTypes DEF userLogout, TypeOK
  <2>5. QED
    BY <1>4, <2>1, <2>2, <2>3, <2>4, ShowTypes DEF userLogout, TypeOK, server
<1>5. ASSUME NEW d \in Devices, didSelectItem(p, d) PROVE TypeOK'
  <2>1. account[p] \in Users
    BY <1>5, SomebodySignedIn DEF didSelectItem
  <2>2. UpdateData(account[p], "currentDevice", d) \in Writes
    BY <2>1 DEF UpdateData, Writes
  <2>3. queue' \in [Phones -> [Users -> Seq(Writes)]]
    BY <1>5, <2>1, <2>2, WriteTypes DEF didSelectItem, setCurrDevice
  <2>4. choices' \in 0 .. MaxChoices
    BY <1>5, BoundsAssumption DEF didSelectItem, TypeOK
  <2>5. chosen' \in [Users -> Devices \cup {None}]
    BY <1>5 DEF didSelectItem, TypeOK
  <2>6. QED
    BY <1>5, <2>3, <2>4, <2>5, PresentTypes DEF didSelectItem, TypeOK, server
<1>6. QED
  BY <1>1, <1>2, <1>3, <1>4, <1>5 DEF Tap

LEMMA AnswerTypeOK == ASSUME TypeOK, IInv, NEW p \in Phones, Answer(p) PROVE TypeOK'
<1>1. CASE checkUser(p)
  <2>1. account[p] \in Users
    BY <1>1, SomebodySignedIn DEF checkUser
  <2>2. SetData(account[p], NewProfile) \in Writes
    BY <2>1 DEF SetData, Writes, NewProfile, Profile
  <2>3. queue' \in [Phones -> [Users -> Seq(Writes)]]
    BY <1>1, <2>1, <2>2, WriteTypes DEF checkUser, CreateUser, TypeOK
  <2>4. QED
    BY <1>1, <2>3, PresentTypes DEF checkUser, TypeOK, server, history
<1>2. CASE getUser(p)
  <2>1. screen[p] = "tabBar"
    BY <1>2 DEF getUser, IInv, Own, CallOnScreen
  <2>2. tab[p].uid \in Users
    BY <2>1, SomebodySignedIn DEF IInv, Own, TabIsOwn
  <2> DEFINE document == UserDocument(p, tab[p].uid)
  <2>3. document \in Profile \cup {Missing}
    BY <2>2, ReadTypes
  <2>4. /\ document = Missing => Crash(p)
        /\ document # Missing =>
             /\ tab' = [tab EXCEPT ![p].currentDevice = document.currentDevice]
             /\ Show(p, "tabBar", "getDevices")
             /\ UNCHANGED <<sent, crashed>>
        /\ UNCHANGED <<server, account, queue, devices, maker, history>>
    BY <1>2 DEF getUser
  <2> HIDE DEF document
  <2>5. CASE document = Missing
    <3>1. "off" \in Screens /\ "none" \in Calls
      BY DEF Screens, Calls
    <3>2. QED
      BY <2>4, <2>5, <3>1, ShowTypes, RestartTypes DEF Crash, TypeOK, server, history
  <2>6. CASE document # Missing
    <3>1. "tabBar" \in Screens /\ "getDevices" \in Calls
      BY DEF Screens, Calls
    <3>2. document.currentDevice \in Devices \cup {None}
      BY <2>3, <2>6 DEF Profile
    <3>3. tab' = [tab EXCEPT ![p] = [tab[p] EXCEPT !.currentDevice = document.currentDevice]]
      BY <2>4, <2>6
    <3>4. [tab[p] EXCEPT !.currentDevice = document.currentDevice] \in TabBars
      BY <3>2, TabBarTypes DEF TypeOK
    <3>5. tab' \in [Phones -> TabBars]
      BY <3>3, <3>4 DEF TypeOK
    <3>6. QED
      BY <2>4, <2>6, <3>1, <3>5, ShowTypes DEF TypeOK, server, history
  <2>7. QED
    BY <2>5, <2>6
<1>3. CASE getDevices(p)
  <2> DEFINE found == DevicesOf(tab[p].uid)
  <2>1. PICK d \in loadCurrDev(tab[p].currentDevice, found) :
          tab' = [tab EXCEPT ![p].devices = found, ![p].chosenDevice = d]
    BY <1>3 DEF getDevices
  <2>2. found \in SUBSET Devices
    BY DEF DevicesOf
  <2>3. d \in Devices \cup {None}
    BY <2>1, <2>2 DEF loadCurrDev
  <2> HIDE DEF found
  <2> DEFINE mid == [tab[p] EXCEPT !.devices = found]
             bar == [mid EXCEPT !.chosenDevice = d]
  <2>4. mid \in TabBars
    BY <2>2, TabBarTypes DEF TypeOK
  <2>5. tab' = [tab EXCEPT ![p] = bar]
    BY <2>1 DEF TypeOK
  <2> HIDE DEF mid
  <2>6. bar \in TabBars
    BY <2>3, <2>4, TabBarTypes
  <2> HIDE DEF bar
  <2>7. tab' \in [Phones -> TabBars]
    BY <2>5, <2>6 DEF TypeOK
  <2>8. "tabBar" \in Screens /\ "getRides" \in Calls
    BY DEF Screens, Calls
  <2>9. QED
    BY <1>3, <2>7, <2>8, ShowTypes DEF getDevices, TypeOK, outbox, server, history
<1>4. CASE getRides(p)
  <2>1. tab' = [tab EXCEPT ![p] = [tab[p] EXCEPT !.viewControllers = TRUE]]
    BY <1>4 DEF getRides
  <2>2. [tab[p] EXCEPT !.viewControllers = TRUE] \in TabBars
    BY TabBarTypes DEF TypeOK
  <2>3. tab' \in [Phones -> TabBars]
    BY <2>1, <2>2 DEF TypeOK
  <2>4. "tabBar" \in Screens /\ "none" \in Calls
    BY DEF Screens, Calls
  <2>5. QED
    BY <1>4, <2>3, <2>4, ShowTypes DEF getRides, TypeOK, outbox, server, history
<1>5. CASE loadDevices(p)
  <2>1. DevicesOf(account[p]) \in SUBSET Devices
    BY DEF DevicesOf
  <2>2. devices' \in [Phones -> SUBSET Devices]
    BY <1>5, <2>1 DEF loadDevices, TypeOK
  <2>3. "devices" \in Screens /\ "none" \in Calls
    BY DEF Screens, Calls
  <2>4. QED
    BY <1>5, <2>2, <2>3, ShowTypes DEF loadDevices, TypeOK, outbox, server, history
<1>6. QED
  BY <1>1, <1>2, <1>3, <1>4, <1>5 DEF Answer

LEMMA DeliverTypeOK == ASSUME TypeOK, NEW p \in Phones, Deliver(p) PROVE TypeOK'
<1>1. CASE ServerApplies(p)
  <2>1. PICK u \in Users : u = account[p]
    BY <1>1 DEF ServerApplies, Online, TypeOK
  <2>2. PICK q \in Seq(Writes) : q = queue[p][u]
    BY DEF TypeOK
  <2>3. PICK n \in Nat : n = sent[p]
    BY DEF TypeOK
  <2>4. /\ n < Len(q) /\ sent' = [sent EXCEPT ![p] = n + 1]
        /\ users' = Applied(users, q[n + 1])
        /\ \E m \in {p, None} : maker' = [maker EXCEPT ![u] = m]
        /\ UNCHANGED <<owner, account, queue, ui, history>>
    BY <1>1, <2>1, <2>2, <2>3 DEF ServerApplies, TypeOK
  <2>5. q[n + 1] \in Writes /\ users \in Documents
    BY <2>4 DEF TypeOK, Documents
  <2>6. users' \in Documents
    BY <2>4, <2>5, AppliedIsDocuments
  <2>7. sent' \in [Phones -> Nat] /\ maker' \in [Users -> Phones \cup {None}]
    BY <2>4 DEF TypeOK
  <2>8. QED
    BY <2>4, <2>6, <2>7 DEF TypeOK, Documents, ui, history
<1>2. CASE WriteResult(p)
  <2>1. PICK u \in Users : u = account[p]
    BY <1>2 DEF WriteResult, Online, TypeOK
  <2>2. PICK q \in Seq(Writes) : q = queue[p][u]
    BY DEF TypeOK
  <2>3. PICK n \in Nat : n = sent[p]
    BY DEF TypeOK
  <2>4. /\ n > 0 /\ sent' = [sent EXCEPT ![p] = n - 1]
        /\ queue' = [queue EXCEPT ![p] = [queue[p] EXCEPT ![u] = Tail(q)]]
        /\ \E m \in {maker[u], None} : maker' = [maker EXCEPT ![u] = m]
        /\ UNCHANGED <<server, account, ui, history>>
    BY <1>2, <2>1, <2>2, <2>3 DEF WriteResult, TypeOK
  <2>5. Tail(q) \in Seq(Writes)
    <3>1. CASE q = <<>>
      BY <3>1
    <3>2. CASE q # <<>>
      BY <3>2
    <3>3. QED
      BY <3>1, <3>2
  <2>6. [queue[p] EXCEPT ![u] = Tail(q)] \in [Users -> Seq(Writes)]
    BY <2>5 DEF TypeOK
  <2>7. queue' \in [Phones -> [Users -> Seq(Writes)]]
    BY <2>4, <2>6 DEF TypeOK
  <2>8. sent' \in [Phones -> Nat] /\ maker' \in [Users -> Phones \cup {None}]
    BY <2>4 DEF TypeOK
  <2>9. QED
    BY <2>4, <2>7, <2>8 DEF TypeOK, ui, server, history
<1>3. CASE StreamRestarts(p)
  BY <1>3, RestartTypes DEF StreamRestarts, TypeOK, ui, server, history
<1>4. QED
  BY <1>1, <1>2, <1>3 DEF Deliver

LEMMA StepTypeOK == TypeOK /\ IInv /\ [Next]_vars => TypeOK'
<1> SUFFICES ASSUME TypeOK, IInv, [Next]_vars PROVE TypeOK'
  OBVIOUS
<1>0. {"off", "login", "tabBar", "devices"} \subseteq Screens /\ "none" \in Calls
  BY DEF Screens, Calls
<1>1. ASSUME NEW p \in Phones, Launch(p) PROVE TypeOK'
  <2>1. crashed' \subseteq Phones
    BY <1>1 DEF Launch, TypeOK
  <2>2. CASE account[p] # None
    BY <1>1, <2>1, <2>2, PresentTypes DEF Launch, TypeOK, outbox, server, history
  <2>3. CASE account[p] = None
    BY <1>0, <1>1, <2>1, <2>3, ShowTypes DEF Launch, TypeOK, outbox, server, history
  <2>4. QED
    BY <2>2, <2>3
<1>2. ASSUME NEW p \in Phones, Kill(p) PROVE TypeOK'
  <2>1. faults' \in 0 .. MaxFaults
    BY <1>2, FaultTypes DEF Kill
  <2>2. QED
    BY <1>0, <1>2, <2>1, ShowTypes, RestartTypes DEF Kill, TypeOK, server
<1>3. ASSUME NEW p \in Phones, ReadError(p) PROVE TypeOK'
  <2>1. faults' \in 0 .. MaxFaults
    BY <1>3, FaultTypes DEF ReadError
  <2>2. screen' \in [Phones -> Screens] /\ call' \in [Phones -> Calls]
    <3>1. screen[p] \in Screens
      BY DEF TypeOK
    <3>2. QED
      BY <1>0, <1>3, <3>1, ShowTypes DEF ReadError, Crash, GiveUp
  <2>3. tab' = tab /\ crashed' \subseteq Phones
    BY <1>3 DEF ReadError, Crash, GiveUp, TypeOK
  <2>4. sent' \in [Phones -> Nat]
    BY <1>3, RestartTypes DEF ReadError, Crash, GiveUp, TypeOK
  <2>5. QED
    BY <1>3, <2>1, <2>2, <2>3, <2>4 DEF ReadError, TypeOK, server
<1>4. ASSUME NEW p \in Phones, Tap(p) \/ Answer(p) \/ Deliver(p) PROVE TypeOK'
  BY <1>4, TapTypeOK, AnswerTypeOK, DeliverTypeOK
<1>5. ASSUME NEW uid \in Users, NEW d \in Devices, Register(uid, d) PROVE TypeOK'
  BY <1>5 DEF Register, TypeOK, outbox, ui, history
<1>6. CASE UNCHANGED vars
  BY <1>6 DEF vars, server, outbox, ui, history, TypeOK
<1>7. QED
  BY <1>1, <1>2, <1>3, <1>4, <1>5, <1>6 DEF Next
-----------------------------------------------------------------------------
(* One phone.  With two, a setData that waits on one may destroy what the  *)
(* other has written (see CreatedOnlyIfMissing), so what follows is of a   *)
(* phone that is the only one.                                             *)

\* What a read of the user's document answers.
Document(p, uid) == Latest(users[uid], queue[p][uid])

\* A phone's queue for a user begins with the document's creation if the server
\* has no document, and else only if that write has made the document; what it
\* answers is the device the user chose last, once there is a choice.
Kept(p, uid) ==
  /\ Orderly(users[uid], queue[p][uid], uid)
  /\ queue[p][uid] # <<>> /\ queue[p][uid][1].kind = "setData" =>
       users[uid] = Missing \/ maker[uid] = p
  /\ chosen[uid] # None =>
       /\ Document(p, uid) = [currentDevice |-> chosen[uid]]
       /\ owner[chosen[uid]] = uid

\* What the server has applied on the stream are the first writes of the account's
\* queue, and its document is what the last of them has left.
Landed(p) == account[p] # None /\ sent[p] > 0 =>
  /\ sent[p] <= Len(queue[p][account[p]])
  /\ users[account[p]] = Result(queue[p][account[p]][sent[p]])

\* The chain has read the user's document.
Loading(p) ==
  \/ screen[p] = "devices"
  \/ screen[p] = "tabBar" /\ (tab[p].viewControllers \/ call[p] \in {"getDevices", "getRides"})

\* A user whose document has been read has one; without a fault, so has every
\* user who is signed in and checked.
Exists(p) ==
  /\ Loading(p) => Document(p, account[p]) # Missing
  /\ faults = 0 =>
       /\ crashed = {}
       /\ account[p] # None /\ call[p] # "checkUser" => Document(p, account[p]) # Missing

\* The chain carries the choice from the document to the home.
Carries(p) == chosen[account[p]] # None =>
  /\ call[p] = "getDevices" => tab[p].currentDevice = chosen[account[p]]
  /\ call[p] = "getRides" \/ Home(p) => tab[p].chosenDevice = chosen[account[p]]

OneInv(p) ==
  /\ (\A uid \in Users : Kept(p, uid)) /\ Landed(p)
  /\ Exists(p)
  /\ account[p] # None => Carries(p)

Alone(p) == Phones = {p}

\* What a phone reads of a user is what the queue leaves of the document.
LEMMA ReadIsDocument ==
  ASSUME TypeOK, NEW p \in Phones, NEW uid \in Users, Kept(p, uid)
  PROVE  UserDocument(p, uid) = Document(p, uid)
<1>1. users \in Documents /\ queue[p][uid] \in Seq(Writes)
  BY DEF TypeOK, Documents
<1>2. QED
  BY <1>1, ViewIsLatest DEF UserDocument, Document, Kept

LEMMA ChosenIsProfile == \A d : [currentDevice |-> d] = Missing => d \notin Devices
BY DistinctAssumption

\* The writes on the stream stay the first ones while the account stays, or the
\* stream ends.
LEMMA LandedFrame ==
  ASSUME TypeOK, NEW p \in Phones, Landed(p), users' = users,
         \/ sent'[p] = 0
         \/ /\ sent'[p] = sent[p] /\ account'[p] = account[p]
            /\ account[p] # None =>
                 \/ queue'[p][account[p]] = queue[p][account[p]]
                 \/ \E w : queue'[p][account[p]] = Append(queue[p][account[p]], w)
  PROVE  Landed(p)'
<1>1. CASE sent'[p] = 0
  BY <1>1 DEF Landed
<1>2. CASE sent'[p] # 0 /\ account[p] # None /\ sent[p] > 0
  <2>1. PICK u \in Users : u = account[p]
    BY <1>2 DEF TypeOK
  <2>2. PICK q \in Seq(Writes) : q = queue[p][u]
    BY DEF TypeOK
  <2>3. PICK n \in Nat : n = sent[p]
    BY DEF TypeOK
  <2>4. n <= Len(q) /\ users[u] = Result(q[n]) /\ n > 0
    BY <1>2, <2>1, <2>2, <2>3 DEF Landed
  <2>5. sent'[p] = n /\ account'[p] = u
    BY <1>2, <2>1, <2>3
  <2>6. n <= Len(queue'[p][u]) /\ queue'[p][u][n] = q[n]
    <3>1. CASE queue'[p][u] = q
      BY <2>4, <3>1
    <3>2. ASSUME NEW w, queue'[p][u] = Append(q, w)
          PROVE  n <= Len(queue'[p][u]) /\ queue'[p][u][n] = q[n]
      <4>1. Len(Append(q, w)) = Len(q) + 1 /\ \A i \in 1 .. Len(q) : Append(q, w)[i] = q[i]
        OBVIOUS
      <4>2. QED
        BY <2>4, <3>2, <4>1
    <3>3. QED
      BY <1>2, <2>1, <2>2, <3>1, <3>2
  <2>7. QED
    BY <2>4, <2>5, <2>6 DEF Landed
<1>3. QED
  BY <1>1, <1>2 DEF Landed, TypeOK

LEMMA ShowAt ==
  ASSUME TypeOK, NEW p \in Phones, NEW s, NEW c, Show(p, s, c)
  PROVE  screen'[p] = s /\ call'[p] = c
BY DEF Show, TypeOK

LEMMA PresentAt ==
  ASSUME TypeOK, NEW p \in Phones, PresentTabBar(p)
  PROVE  screen'[p] = "tabBar" /\ call'[p] = "getUser" /\ ~tab'[p].viewControllers
<1>1. tab'[p] = NewTabBar(account[p])
  BY DEF PresentTabBar, TypeOK
<1>2. QED
  BY <1>1, ShowAt DEF PresentTabBar, NewTabBar

\* What the queue and the document of each user are after a write.
LEMMA QueueAfterWrite ==
  ASSUME TypeOK, NEW p \in Phones, NEW uid \in Users, NEW w \in Writes, Write(p, uid, w)
  PROVE  /\ queue'[p][uid] = Append(queue[p][uid], w)
         /\ \A v \in Users \ {uid} : queue'[p][v] = queue[p][v]
<1>1. queue'[p] = [queue[p] EXCEPT ![uid] = Append(queue[p][uid], w)]
  BY DEF Write, TypeOK
<1>2. queue[p] \in [Users -> Seq(Writes)]
  BY DEF TypeOK
<1>3. QED
  BY <1>1, <1>2

\* A user is untouched by what happens to others.
LEMMA KeptFrame ==
  ASSUME NEW p \in Phones, NEW uid \in Users, Kept(p, uid),
         users'[uid] = users[uid], queue'[p][uid] = queue[p][uid], chosen'[uid] = chosen[uid],
         maker'[uid] = maker[uid],
         chosen[uid] # None => owner'[chosen[uid]] = owner[chosen[uid]]
  PROVE  Kept(p, uid)' /\ Document(p, uid)' = Document(p, uid)
BY DEF Kept, Document

LEMMA CreateKeeps ==
  ASSUME TypeOK, NEW p \in Phones, \A uid \in Users : Kept(p, uid),
         NEW u \in Users, CreateUser(p, u), UNCHANGED <<users, owner, chosen, maker>>
  PROVE  /\ (\A uid \in Users : Kept(p, uid)') /\ Document(p, u)' # Missing
         /\ \/ queue'[p][u] = queue[p][u]
            \/ \E w : queue'[p][u] = Append(queue[p][u], w)
<1>0. UserDocument(p, u) = Document(p, u)
  BY ReadIsDocument
<1>1. CASE Document(p, u) # Missing
  <2>1. queue' = queue
    BY <1>0, <1>1 DEF CreateUser
  <2>2. QED
    BY <1>1, <2>1, KeptFrame
<1>2. CASE Document(p, u) = Missing
  <2>1. PICK q \in Seq(Writes) : q = queue[p][u]
    BY DEF TypeOK
  <2>2. q = <<>> /\ users[u] = Missing
    <3>1. q # <<>> => q[Len(q)] \in Writes
      OBVIOUS
    <3>2. QED
      BY <1>2, <2>1, <3>1, ResultIsProfile DEF Document, Latest
  <2>3. chosen[u] = None
    BY <1>2, ChosenIsProfile DEF Kept, TypeOK
  <2>4. PICK w \in Writes : w = SetData(u, NewProfile)
    BY DEF SetData, Writes, NewProfile, Profile
  <2>5. Write(p, u, w)
    BY <1>0, <1>2, <2>4 DEF CreateUser
  <2>6. w.kind = "setData" /\ w.name = u
    BY <2>4 DEF SetData
  <2>7. queue'[p][u] = <<w>> /\ queue'[p][u] = Append(queue[p][u], w)
    <3>1. queue'[p][u] = Append(queue[p][u], w)
      BY <2>5, QueueAfterWrite
    <3>2. Append(<<>>, w) = <<w>>
      OBVIOUS
    <3>3. QED
      BY <2>1, <2>2, <3>1, <3>2
  <2>8. /\ <<w>> # <<>> /\ Len(<<w>>) = 1 /\ <<w>>[1] = w
        /\ \A i \in 1 .. Len(<<w>>) : i = 1
    OBVIOUS
  <2>9. Document(p, u)' # Missing
    <3>1. Latest(users[u], <<w>>) = Result(w)
      BY <2>8 DEF Latest
    <3>2. QED
      BY <2>7, <3>1, ResultIsProfile DEF Document
  <2>10. Kept(p, u)'
    <3>1. Orderly(users[u], <<w>>, u)
      BY <2>6, <2>8 DEF Orderly
    <3>2. users' = users /\ chosen' = chosen
      OBVIOUS
    <3>3. QED
      BY <2>2, <2>3, <2>7, <3>1, <3>2 DEF Kept
  <2>11. \A v \in Users \ {u} : Kept(p, v)'
    BY <2>5, QueueAfterWrite, KeptFrame
  <2>12. QED
    BY <2>7, <2>9, <2>10, <2>11
<1>3. QED
  BY <1>1, <1>2

LEMMA ChoiceKeeps ==
  ASSUME TypeOK, NEW p \in Phones, \A uid \in Users : Kept(p, uid),
         NEW u \in Users, NEW d \in Devices, owner[d] = u, Document(p, u) # Missing,
         Write(p, u, UpdateData(u, "currentDevice", d)),
         chosen' = [chosen EXCEPT ![u] = d], UNCHANGED <<users, owner, maker>>
  PROVE  /\ (\A uid \in Users : Kept(p, uid)') /\ Document(p, u)' # Missing
         /\ \E w : queue'[p][u] = Append(queue[p][u], w)
<1>1. PICK w \in Writes : w = UpdateData(u, "currentDevice", d)
  BY DEF UpdateData, Writes
<1>2. w.kind = "updateData" /\ w.name = u /\ w.data = d
  BY <1>1 DEF UpdateData
<1>3. PICK q \in Seq(Writes) : q = queue[p][u]
  BY DEF TypeOK
<1>4. /\ queue'[p][u] = Append(q, w)
      /\ \A v \in Users \ {u} : queue'[p][v] = queue[p][v]
  BY <1>1, <1>3, QueueAfterWrite
<1>5. /\ chosen'[u] = d /\ \A v \in Users \ {u} : chosen'[v] = chosen[v]
  BY DEF TypeOK
<1>6. Orderly(users[u], q, u) /\ (users[u] = Missing => q # <<>>)
  BY <1>3 DEF Kept, Document, Latest
<1> DEFINE more == Append(q, w)
<1>7. /\ Len(more) = Len(q) + 1 /\ Len(q) \in Nat /\ more # <<>>
      /\ more[Len(more)] = w /\ more[Len(q) + 1] = w
      /\ \A i \in 1 .. Len(q) : more[i] = q[i]
      /\ q # <<>> => 1 \in 1 .. Len(q)
      /\ q = <<>> => Len(q) = 0
  BY AppendProperties
<1>8. queue'[p][u] = more
  BY <1>4
<1> HIDE DEF more
<1>9. Document(p, u)' = [currentDevice |-> d] /\ Document(p, u)' # Missing
  <2>1. Result(w) = [currentDevice |-> d] /\ Result(w) # Missing
    BY <1>2, ResultIsProfile DEF Result
  <2>2. QED
    BY <1>7, <1>8, <2>1 DEF Document, Latest
<1>10. Orderly(users[u], more, u)
  <2>1. \A i \in 1 .. Len(more) : i \in 1 .. Len(q) \/ i = Len(q) + 1
    BY <1>7
  <2>2. \A i \in 1 .. Len(more) : more[i].name = u /\ (more[i].kind = "setData" => i = 1)
    BY <1>2, <1>6, <1>7, <2>1 DEF Orderly
  <2>3. users[u] = Missing => more[1].kind = "setData"
    BY <1>6, <1>7 DEF Orderly
  <2>4. QED
    BY <2>2, <2>3 DEF Orderly
<1>11. more[1].kind = "setData" => users[u] = Missing \/ maker[u] = p
  <2>1. CASE q = <<>>
    BY <1>2, <1>7, <2>1
  <2>2. CASE q # <<>>
    BY <1>3, <1>7, <2>2 DEF Kept
  <2>3. QED
    BY <2>1, <2>2
<1>12. Kept(p, u)'
  <2>1. users' = users /\ owner' = owner /\ maker' = maker
    OBVIOUS
  <2>2. QED
    BY <1>5, <1>8, <1>9, <1>10, <1>11, <2>1 DEF Kept
<1>13. \A v \in Users \ {u} : Kept(p, v)'
  BY <1>4, <1>5, KeptFrame
<1>14. QED
  BY <1>3, <1>4, <1>9, <1>12, <1>13

\* A write that the server applies, also one that it has applied before, leaves
\* what the phone reads: only the account's document changes, under its queue.
LEMMA ServerAppliesKeeps ==
  ASSUME TypeOK, NEW p \in Phones, \A uid \in Users : Kept(p, uid), Landed(p), ServerApplies(p)
  PROVE  /\ \A uid \in Users : Kept(p, uid)' /\ Document(p, uid)' = Document(p, uid)
         /\ Landed(p)'
<1>1. PICK u \in Users : u = account[p]
  BY DEF ServerApplies, Online, TypeOK
<1>2. PICK q \in Seq(Writes) : q = queue[p][u]
  BY DEF TypeOK
<1>3. PICK n \in Nat : n = sent[p]
  BY DEF TypeOK
<1>4. PICK w \in Writes : w = q[n + 1]
  BY <1>1, <1>2, <1>3 DEF ServerApplies
<1>5. /\ n < Len(q) /\ sent' = [sent EXCEPT ![p] = n + 1] /\ users' = Applied(users, w)
      /\ maker' = [maker EXCEPT ![u] =
           IF maker[u] = p \/ (w.kind = "setData" /\ users[u] = Missing) THEN p ELSE None]
      /\ UNCHANGED <<owner, account, queue, chosen>>
  BY <1>1, <1>2, <1>3, <1>4 DEF ServerApplies, history
<1>6. sent'[p] = n + 1
  BY <1>5 DEF TypeOK
<1>7. /\ maker'[u] = IF maker[u] = p \/ (w.kind = "setData" /\ users[u] = Missing) THEN p ELSE None
      /\ \A v \in Users \ {u} : maker'[v] = maker[v]
  BY <1>5 DEF TypeOK
<1>8. Orderly(users[u], q, u) /\ q # <<>> /\ 1 \in 1 .. Len(q) /\ n + 1 \in 1 .. Len(q)
  BY <1>2, <1>5 DEF Kept
<1>9. w.name = u /\ (n = 0 => w = q[1])
  BY <1>4, <1>8 DEF Orderly
<1>10. n > 0 => users[u] # Missing
  <2>1. ASSUME n > 0 PROVE users[u] # Missing
    <3>1. users[u] = Result(q[n]) /\ n <= Len(q)
      BY <1>1, <1>2, <1>3, <2>1, DistinctAssumption DEF Landed
    <3>2. q[n] \in Writes
      BY <2>1, <3>1
    <3>3. QED
      BY <3>1, <3>2, ResultIsProfile
  <2>2. QED
    BY <2>1
<1>11. w.kind = "setData" \/ users[u] # Missing
  BY <1>8, <1>9, <1>10 DEF Orderly
<1>12. users \in Documents
  BY DEF TypeOK, Documents
<1>13. users'[u] = Result(w) /\ users'[u] # Missing
  BY <1>5, <1>9, <1>11, <1>12, AppliedIsResult, ResultIsProfile
<1>14. \A v \in Users \ {u} : users'[v] = users[v]
  BY <1>5, <1>9, <1>12, AppliedIsDocuments
<1>15. Document(p, u)' = Document(p, u)
  BY <1>2, <1>5, <1>8 DEF Document, Latest
<1>16. Kept(p, u)'
  <2>1. Orderly(users'[u], q, u)
    BY <1>8, <1>13 DEF Orderly
  <2>2. q[1].kind = "setData" => maker'[u] = p
    <3>1. q[1].kind = "setData" => users[u] = Missing \/ maker[u] = p
      BY <1>2, <1>8 DEF Kept
    <3>2. QED
      BY <1>7, <1>9, <1>10, <3>1
  <2>3. chosen[u] # None => Document(p, u) = [currentDevice |-> chosen[u]] /\ owner[chosen[u]] = u
    BY DEF Kept
  <2>4. QED
    BY <1>2, <1>5, <1>15, <2>1, <2>2, <2>3 DEF Kept
<1>17. \A v \in Users \ {u} : Kept(p, v)' /\ Document(p, v)' = Document(p, v)
  BY <1>5, <1>7, <1>14, KeptFrame
<1>18. Landed(p)'
  BY <1>1, <1>2, <1>4, <1>5, <1>6, <1>8, <1>13 DEF Landed
<1>19. QED
  BY <1>15, <1>16, <1>17, <1>18

\* A row that goes has left its mark on the document, or a later one is still there.
LEMMA WriteResultKeeps ==
  ASSUME TypeOK, NEW p \in Phones, \A uid \in Users : Kept(p, uid), Landed(p), WriteResult(p)
  PROVE  /\ \A uid \in Users : Kept(p, uid)' /\ Document(p, uid)' = Document(p, uid)
         /\ Landed(p)'
<1>1. PICK u \in Users : u = account[p]
  BY DEF WriteResult, Online, TypeOK
<1>2. PICK q \in Seq(Writes) : q = queue[p][u]
  BY DEF TypeOK
<1>3. PICK n \in Nat : n = sent[p]
  BY DEF TypeOK
<1>4. /\ n > 0 /\ sent' = [sent EXCEPT ![p] = n - 1]
      /\ queue' = [queue EXCEPT ![p] = [queue[p] EXCEPT ![u] = Tail(q)]]
      /\ \E m : maker' = [maker EXCEPT ![u] = m]
      /\ UNCHANGED <<users, owner, account, chosen>>
  BY <1>1, <1>2, <1>3 DEF WriteResult, TypeOK, server, history
<1>5. n <= Len(q) /\ users[u] = Result(q[n]) /\ Len(q) \in Nat
  BY <1>1, <1>2, <1>3, <1>4, DistinctAssumption DEF Landed
<1> DEFINE rest == Tail(q)
<1>6. /\ rest \in Seq(Writes) /\ Len(rest) = Len(q) - 1
      /\ \A i \in 1 .. Len(rest) : rest[i] = q[i + 1] /\ i + 1 \in 1 .. Len(q) /\ i + 1 # 1
      /\ rest = <<>> <=> Len(q) = 1
      /\ q # <<>>
  <2>1. q # <<>>
    BY <1>4, <1>5
  <2>2. rest \in Seq(Writes) /\ Len(rest) = Len(q) - 1 /\ \A i \in 1 .. Len(rest) : rest[i] = q[i + 1]
    BY <2>1
  <2> HIDE DEF rest
  <2>3. rest = <<>> <=> Len(rest) = 0
    BY <2>2
  <2>4. QED
    BY <1>4, <1>5, <2>1, <2>2, <2>3
<1>7. /\ sent'[p] = n - 1
      /\ \A v \in Users \ {u} : maker'[v] = maker[v]
  BY <1>4 DEF TypeOK
<1>8. queue'[p][u] = rest /\ \A v \in Users \ {u} : queue'[p][v] = queue[p][v]
  <2>1. queue[p] \in [Users -> Seq(Writes)]
    BY DEF TypeOK
  <2>2. queue'[p] = [queue[p] EXCEPT ![u] = rest]
    BY <1>4 DEF TypeOK
  <2>3. QED
    BY <2>1, <2>2
<1> HIDE DEF rest
<1>9. users[u] # Missing
  <2>1. q[n] \in Writes
    BY <1>4, <1>5
  <2>2. QED
    BY <1>5, <2>1, ResultIsProfile
<1>10. Document(p, u)' = Document(p, u)
  <2>1. CASE rest = <<>>
    <3>1. Len(q) = 1 /\ n = 1
      <4>1. Len(q) = 1
        BY <1>6, <2>1
      <4>2. n \in Nat /\ n > 0 /\ n <= Len(q)
        BY <1>4, <1>5
      <4>3. QED
        BY <4>1, <4>2
    <3>2. Latest(users[u], q) = users[u] /\ Latest(users[u], rest) = users[u]
      BY <1>5, <1>6, <2>1, <3>1 DEF Latest
    <3>3. QED
      BY <1>2, <1>4, <1>8, <3>2 DEF Document
  <2>2. CASE rest # <<>>
    <3>1. rest[Len(rest)] = q[Len(q)]
      <4>1. Len(rest) \in 1 .. Len(rest) /\ Len(rest) + 1 = Len(q)
        BY <1>5, <1>6, <2>2
      <4>2. QED
        BY <1>6, <4>1
    <3>2. Latest(users[u], q) = Latest(users[u], rest)
      BY <1>6, <2>2, <3>1 DEF Latest
    <3>3. QED
      BY <1>2, <1>4, <1>8, <3>2 DEF Document
  <2>3. QED
    BY <2>1, <2>2
<1>11. Kept(p, u)'
  <2>1. Orderly(users[u], q, u)
    BY <1>2 DEF Kept
  <2>2. \A i \in 1 .. Len(rest) : rest[i].name = u /\ rest[i].kind # "setData"
    BY <1>6, <2>1 DEF Orderly
  <2>3. Orderly(users[u], rest, u) /\ (rest # <<>> => rest[1].kind # "setData")
    <3>1. rest # <<>> => 1 \in 1 .. Len(rest)
      BY <1>6
    <3>2. QED
      BY <1>9, <2>2, <3>1 DEF Orderly
  <2>4. chosen[u] # None => Document(p, u) = [currentDevice |-> chosen[u]] /\ owner[chosen[u]] = u
    BY DEF Kept
  <2>5. QED
    BY <1>4, <1>8, <1>10, <2>3, <2>4 DEF Kept
<1>12. \A v \in Users \ {u} : Kept(p, v)' /\ Document(p, v)' = Document(p, v)
  BY <1>4, <1>7, <1>8, KeptFrame
<1>13. Landed(p)'
  <2>1. ASSUME n - 1 > 0
        PROVE  n - 1 <= Len(rest) /\ users[u] = Result(rest[n - 1])
    <3>1. n - 1 \in 1 .. Len(rest) /\ (n - 1) + 1 = n
      BY <1>4, <1>5, <1>6, <2>1
    <3>2. rest[n - 1] = q[n]
      BY <1>6, <3>1
    <3>3. QED
      BY <1>5, <3>1, <3>2
  <2>2. QED
    BY <1>1, <1>4, <1>7, <1>8, <2>1 DEF Landed
<1>14. QED
  BY <1>10, <1>11, <1>12, <1>13

-----------------------------------------------------------------------------
LEMMA RestartAt == ASSUME TypeOK, NEW p \in Phones, Restart(p) PROVE sent'[p] = 0
BY DEF Restart, TypeOK

\* The write stream of phone p goes on for the account it has been for, or ends.
StreamSame(p) == sent'[p] = 0 \/ (sent'[p] = sent[p] /\ account'[p] = account[p])

\* A step that leaves the documents, the queue and the choice leaves Kept.
LEMMA SameKept ==
  ASSUME TypeOK, NEW p \in Phones, OneInv(p), StreamSame(p),
         UNCHANGED <<users, owner, queue, chosen, maker>>
  PROVE  /\ \A uid \in Users : Kept(p, uid)'
         /\ \A uid : Document(p, uid)' = Document(p, uid)
         /\ Landed(p)'
<1>1. Landed(p)'
  BY LandedFrame DEF OneInv, StreamSame
<1>2. QED
  BY <1>1 DEF OneInv, Kept, Document

\* A tab bar just made shows nothing yet.
LEMMA PresentOneInv ==
  ASSUME TypeOK, NEW p \in Phones, PresentTabBar(p), \A uid \in Users : Kept(p, uid)', Landed(p)',
         faults' = 0 => crashed' = {} /\ Document(p, account[p])' # Missing
  PROVE  OneInv(p)'
<1>1. screen'[p] = "tabBar" /\ call'[p] = "getUser" /\ ~tab'[p].viewControllers
  BY PresentAt
<1>2. Exists(p)'
  BY <1>1 DEF Exists, Loading
<1>3. Carries(p)'
  BY <1>1 DEF Carries, Home
<1>4. QED
  BY <1>2, <1>3 DEF OneInv

\* A screen put up over the tab bar there is, with a call that adds nothing to
\* what the tab bar holds.
LEMMA ShowOneInv ==
  ASSUME TypeOK, NEW p \in Phones, OneInv(p), NEW s \in Screens, NEW c \in Calls, Show(p, s, c),
         UNCHANGED <<users, owner, queue, chosen, maker, tab>>, StreamSame(p),
         c \notin {"getDevices", "getRides"},
         s \in {"tabBar", "devices"} =>
           /\ account'[p] = account[p]
           /\ s = "devices" => Loading(p)
           /\ tab[p].viewControllers => Home(p),
         faults' = 0 =>
           /\ faults = 0 /\ crashed' = {}
           /\ account'[p] # None /\ c # "checkUser" =>
                account'[p] = account[p] /\ call[p] # "checkUser"
  PROVE  OneInv(p)'
<1>1. screen'[p] = s /\ call'[p] = c /\ tab' = tab /\ chosen' = chosen
  BY ShowAt
<1>2. /\ \A uid \in Users : Kept(p, uid)'
      /\ \A uid : Document(p, uid)' = Document(p, uid)
      /\ Landed(p)'
  BY SameKept
<1>3. Home(p) => Loading(p)
  BY DEF Home, Loading
<1>4. Loading(p)' => Loading(p) /\ account'[p] = account[p]
  BY <1>1, <1>3 DEF Loading
<1>5. Exists(p)'
  BY <1>1, <1>2, <1>4 DEF Exists, OneInv
<1>6. Home(p)' => Home(p) /\ account'[p] = account[p]
  BY <1>1 DEF Home
<1>7. account'[p] # None => Carries(p)'
  <2>1. CASE ~Home(p)'
    BY <1>1, <2>1 DEF Carries
  <2>2. ASSUME account'[p] # None, Home(p)' PROVE Carries(p)'
    <3>1. Home(p) /\ account'[p] = account[p] /\ Carries(p)
      BY <1>6, <2>2 DEF OneInv
    <3>2. QED
      BY <1>1, <3>1 DEF Carries
  <2>3. QED
    BY <2>1, <2>2
<1>8. QED
  BY <1>2, <1>5, <1>7 DEF OneInv

LEMMA InitOneInv == ASSUME Init, NEW p \in Phones PROVE OneInv(p)
<1>1. ASSUME NEW uid \in Users PROVE Kept(p, uid)
  <2>1. queue[p][uid] = <<>> /\ chosen[uid] = None /\ Len(<<>>) = 0
    BY DEF Init
  <2>2. QED
    BY <2>1 DEF Kept, Orderly
<1>2. account[p] = None /\ screen[p] = "off" /\ crashed = {} /\ sent[p] = 0
  BY DEF Init
<1>3. QED
  BY <1>1, <1>2 DEF OneInv, Exists, Loading, Landed

\* What a phone starts with, or takes up, when it is signed in.
LEMMA TapOneInv ==
  ASSUME TypeOK, IInv, NEW p \in Phones, OneInv(p), Tap(p)
  PROVE  OneInv(p)'
<1>0. {"login", "tabBar", "devices"} \subseteq Screens /\ {"none", "checkUser", "loadDevices"} \subseteq Calls
  BY DEF Screens, Calls
<1>1. ASSUME NEW uid \in Users, SignIn(p, uid) PROVE OneInv(p)'
  <2>1. /\ Show(p, "login", "checkUser")
        /\ UNCHANGED <<users, owner, queue, chosen, maker, tab, crashed, faults>>
        /\ StreamSame(p)
    BY <1>1, RestartAt DEF SignIn, server, history, StreamSame
  <2>2. faults = 0 => crashed = {}
    BY DEF OneInv, Exists
  <2>3. QED
    BY <1>0, <2>1, <2>2, ShowOneInv
<1>2. CASE showDevices(p)
  <2>1. /\ Show(p, "devices", "loadDevices") /\ screen[p] = "tabBar" /\ tab[p].viewControllers
        /\ UNCHANGED <<users, owner, queue, chosen, maker, tab, account, crashed, faults>>
        /\ StreamSame(p)
    BY <1>2 DEF showDevices, outbox, server, history, StreamSame
  <2>2. Home(p) /\ Loading(p) /\ call[p] # "checkUser"
    BY <2>1 DEF Home, Loading, IInv, Own, CallOnScreen
  <2>3. faults = 0 => crashed = {}
    BY DEF OneInv, Exists
  <2>4. QED
    BY <1>0, <2>1, <2>2, <2>3, ShowOneInv
<1>3. CASE closeMenu(p)
  <2>1. /\ Show(p, "tabBar", "none") /\ screen[p] = "devices"
        /\ UNCHANGED <<users, owner, queue, chosen, maker, tab, account, crashed, faults>>
        /\ StreamSame(p)
    BY <1>3 DEF closeMenu, outbox, server, history, StreamSame
  <2>2. (tab[p].viewControllers => Home(p)) /\ call[p] # "checkUser"
    BY <2>1 DEF Home, IInv, Own, CallOnScreen
  <2>3. faults = 0 => crashed = {}
    BY DEF OneInv, Exists
  <2>4. QED
    BY <1>0, <2>1, <2>2, <2>3, ShowOneInv
<1>4. CASE userLogout(p)
  <2>1. /\ Show(p, "login", "none") /\ UNCHANGED <<users, owner, queue, chosen, maker, tab, crashed>>
        /\ \/ account'[p] = None /\ faults' = faults
           \/ faults' = faults + 1
        /\ StreamSame(p)
    BY <1>4, RestartAt DEF userLogout, Fault, server, TypeOK, StreamSame
  <2>2. faults' = 0 => faults' = faults /\ account'[p] = None
    BY <2>1, BoundsAssumption DEF TypeOK
  <2>3. faults = 0 => crashed = {}
    BY DEF OneInv, Exists
  <2>4. QED
    BY <1>0, <2>1, <2>2, <2>3, ShowOneInv
<1>5. ASSUME NEW d \in Devices, didSelectItem(p, d) PROVE OneInv(p)'
  <2>1. PICK u \in Users : u = account[p]
    BY <1>5, SomebodySignedIn DEF didSelectItem
  <2>2. /\ PresentTabBar(p) /\ owner[d] = u /\ Document(p, u) # Missing
        /\ account' = account
    BY <1>5, <2>1 DEF didSelectItem, IInv, Own, ListIsOwn, OneInv, Exists, Loading
  <2>3. /\ Write(p, u, UpdateData(u, "currentDevice", d))
        /\ chosen' = [chosen EXCEPT ![u] = d] /\ UNCHANGED <<users, owner, maker, sent>>
    BY <1>5, <2>1 DEF didSelectItem, setCurrDevice, server
  <2>4. /\ (\A uid \in Users : Kept(p, uid)') /\ Document(p, u)' # Missing
        /\ \E w : queue'[p][u] = Append(queue[p][u], w)
    BY <2>2, <2>3, ChoiceKeeps DEF OneInv
  <2>8. Landed(p)'
    BY <2>1, <2>2, <2>3, <2>4, LandedFrame DEF OneInv
  <2>5. crashed' = crashed /\ faults' = faults /\ Document(p, account[p])' # Missing
    BY <1>5, <2>1, <2>2, <2>4 DEF didSelectItem
  <2>6. faults = 0 => crashed = {}
    BY DEF OneInv, Exists
  <2>7. QED
    BY <2>2, <2>4, <2>5, <2>6, <2>8, PresentOneInv
<1>6. QED
  BY <1>1, <1>2, <1>3, <1>4, <1>5 DEF Tap

\* What the reads bring to the tab bar.
LEMMA AnswerOneInv ==
  ASSUME TypeOK, IInv, NEW p \in Phones, OneInv(p), Answer(p)
  PROVE  OneInv(p)'
<1>0. faults = 0 => crashed = {}
  BY DEF OneInv, Exists
<1>1. CASE checkUser(p)
  <2>1. PICK u \in Users : u = account[p]
    BY <1>1, SomebodySignedIn DEF checkUser
  <2>2. /\ CreateUser(p, u) /\ PresentTabBar(p) /\ account' = account
        /\ UNCHANGED <<users, owner, chosen, maker, sent, crashed, faults>>
    BY <1>1, <2>1 DEF checkUser, server, history
  <2>3. /\ (\A uid \in Users : Kept(p, uid)') /\ Document(p, u)' # Missing
        /\ \/ queue'[p][u] = queue[p][u]
           \/ \E w : queue'[p][u] = Append(queue[p][u], w)
    BY <2>2, CreateKeeps DEF OneInv
  <2>6. Landed(p)'
    BY <2>1, <2>2, <2>3, LandedFrame DEF OneInv
  <2>4. Document(p, account[p])' # Missing
    BY <2>1, <2>2, <2>3
  <2>5. QED
    BY <1>0, <2>2, <2>3, <2>4, <2>6, PresentOneInv
<1>2. CASE getUser(p)
  <2>1. PICK u \in Users : u = account[p] /\ u = tab[p].uid
    <3>1. screen[p] = "tabBar"
      BY <1>2 DEF getUser, IInv, Own, CallOnScreen
    <3>2. QED
      BY <3>1, SomebodySignedIn DEF IInv, Own, TabIsOwn
  <2>2. PICK document \in Profile \cup {Missing} : document = Document(p, u)
    BY ReadTypes, ReadIsDocument DEF OneInv
  <2>8. document = UserDocument(p, u)
    BY <2>2, ReadIsDocument DEF OneInv
  <2>3. /\ document = Missing => Crash(p)
        /\ document # Missing =>
             /\ tab' = [tab EXCEPT ![p].currentDevice = document.currentDevice]
             /\ Show(p, "tabBar", "getDevices")
             /\ UNCHANGED crashed
        /\ call[p] = "getUser" /\ StreamSame(p)
        /\ UNCHANGED <<users, owner, queue, chosen, maker, account, faults>>
    BY <1>2, <2>1, <2>8, RestartAt DEF getUser, Crash, server, history, StreamSame
  <2>4. /\ \A uid \in Users : Kept(p, uid)'
        /\ \A uid : Document(p, uid)' = Document(p, uid)
        /\ Landed(p)'
    BY <2>3, SameKept
  <2>5. CASE document = Missing
    <3>1. faults' # 0
      BY <2>1, <2>2, <2>3, <2>5, DistinctAssumption DEF OneInv, Exists
    <3>2. screen'[p] = "off" /\ call'[p] = "none"
      BY <2>3, <2>5, ShowAt DEF Crash
    <3>3. Exists(p)' /\ Carries(p)'
      BY <3>1, <3>2 DEF Exists, Loading, Carries, Home
    <3>4. QED
      BY <2>4, <3>3 DEF OneInv
  <2>6. CASE document # Missing
    <3>1. screen'[p] = "tabBar" /\ call'[p] = "getDevices"
      BY <2>3, <2>6, ShowAt
    <3>2. /\ tab'[p].currentDevice = document.currentDevice
          /\ tab'[p].chosenDevice = tab[p].chosenDevice
          /\ tab'[p].viewControllers = tab[p].viewControllers
      <4>1. tab'[p] = [tab[p] EXCEPT !.currentDevice = document.currentDevice]
        BY <2>3, <2>6 DEF TypeOK
      <4>2. PICK bar \in TabBars : bar = tab[p]
        BY DEF TypeOK
      <4>3. QED
        BY <4>1, <4>2 DEF TabBars
    <3>3. Document(p, account[p])' # Missing
      BY <2>1, <2>2, <2>3, <2>4, <2>6
    <3>4. Exists(p)'
      BY <1>0, <2>3, <2>6, <3>3 DEF Exists
    <3>5. Home(p)' => Home(p)
      BY <1>2, <3>2 DEF Home, getUser, IInv, Own, CallOnScreen
    <3>6. Carries(p)'
      <4>1. chosen[u] # None => document.currentDevice = chosen[u]
        <5>1. chosen[u] # None => document = [currentDevice |-> chosen[u]]
          BY <2>2 DEF OneInv, Kept
        <5>2. QED
          BY <5>1
      <4>2. Carries(p) /\ chosen'[account'[p]] = chosen[u] /\ account'[p] = u
        BY <2>1, <2>3, DistinctAssumption DEF OneInv
      <4>3. QED
        BY <2>1, <3>1, <3>2, <3>5, <4>1, <4>2 DEF Carries
    <3>7. QED
      BY <2>4, <3>4, <3>6 DEF OneInv
  <2>7. QED
    BY <2>5, <2>6
<1>3. CASE getDevices(p)
  <2>1. PICK u \in Users : u = account[p] /\ u = tab[p].uid
    <3>1. screen[p] = "tabBar"
      BY <1>3 DEF getDevices, IInv, Own, CallOnScreen
    <3>2. QED
      BY <3>1, SomebodySignedIn DEF IInv, Own, TabIsOwn
  <2>2. PICK bar \in TabBars : bar = tab[p]
    BY DEF TypeOK
  <2>3. PICK found \in SUBSET Devices : found = DevicesOf(u)
    BY DEF DevicesOf
  <2>4. PICK d \in loadCurrDev(bar.currentDevice, found) :
          tab' = [tab EXCEPT ![p].devices = found, ![p].chosenDevice = d]
    BY <1>3, <2>1, <2>2, <2>3 DEF getDevices
  <2>5. /\ call[p] = "getDevices" /\ Show(p, "tabBar", "getRides")
        /\ UNCHANGED <<users, owner, queue, chosen, maker, account, crashed, faults>>
        /\ StreamSame(p)
    BY <1>3 DEF getDevices, outbox, server, history, StreamSame
  <2>6. /\ \A uid \in Users : Kept(p, uid)'
        /\ \A uid : Document(p, uid)' = Document(p, uid)
        /\ Landed(p)'
    BY <2>5, SameKept
  <2>7. screen'[p] = "tabBar" /\ call'[p] = "getRides"
    BY <2>5, ShowAt
  <2>8. tab'[p].chosenDevice = d /\ tab'[p].viewControllers = bar.viewControllers
    <3>1. PICK mid \in TabBars : mid = [bar EXCEPT !.devices = found]
      BY TabBarTypes
    <3>2. tab'[p] = [mid EXCEPT !.chosenDevice = d]
      BY <2>2, <2>4, <3>1 DEF TypeOK
    <3>3. QED
      BY <3>1, <3>2 DEF TabBars
  <2>9. Loading(p) /\ Document(p, u) # Missing /\ Carries(p)
    <3>1. Loading(p)
      BY <1>3 DEF getDevices, Loading, IInv, Own, CallOnScreen
    <3>2. QED
      BY <2>1, <3>1, DistinctAssumption DEF OneInv, Exists
  <2>10. Exists(p)'
    BY <1>0, <2>1, <2>5, <2>6, <2>9 DEF Exists
  <2>11. chosen[u] # None => d = chosen[u]
    <3>1. SUFFICES ASSUME chosen[u] # None PROVE d = chosen[u]
      OBVIOUS
    <3>2. bar.currentDevice = chosen[u]
      BY <2>1, <2>2, <2>5, <2>9, <3>1 DEF Carries
    <3>3. chosen[u] \in found
      BY <2>3, <3>1 DEF DevicesOf, OneInv, Kept, TypeOK
    <3>4. QED
      BY <2>4, <3>1, <3>2, <3>3 DEF loadCurrDev
  <2>12. Carries(p)'
    BY <2>1, <2>5, <2>7, <2>8, <2>11 DEF Carries
  <2>13. QED
    BY <2>6, <2>10, <2>12 DEF OneInv
<1>4. CASE getRides(p)
  <2>1. /\ call[p] = "getRides" /\ Show(p, "tabBar", "none")
        /\ tab' = [tab EXCEPT ![p].viewControllers = TRUE]
        /\ UNCHANGED <<users, owner, queue, chosen, maker, account, crashed, faults>>
        /\ StreamSame(p)
    BY <1>4 DEF getRides, outbox, server, history, StreamSame
  <2>2. /\ \A uid \in Users : Kept(p, uid)'
        /\ \A uid : Document(p, uid)' = Document(p, uid)
        /\ Landed(p)'
    BY <2>1, SameKept
  <2>3. screen'[p] = "tabBar" /\ call'[p] = "none"
    BY <2>1, ShowAt
  <2>4. tab'[p].chosenDevice = tab[p].chosenDevice
    <3>1. PICK bar \in TabBars : bar = tab[p]
      BY DEF TypeOK
    <3>2. tab'[p] = [bar EXCEPT !.viewControllers = TRUE]
      BY <2>1, <3>1 DEF TypeOK
    <3>3. QED
      BY <3>1, <3>2 DEF TabBars
  <2>5. Document(p, account[p]) # Missing
    BY <2>1 DEF OneInv, Exists, Loading, IInv, Own, CallOnScreen
  <2>6. Exists(p)'
    BY <1>0, <2>1, <2>2, <2>5 DEF Exists
  <2>7. account'[p] # None => Carries(p)'
    BY <2>1, <2>3, <2>4 DEF Carries, OneInv
  <2>8. QED
    BY <2>2, <2>6, <2>7 DEF OneInv
<1>5. CASE loadDevices(p)
  <2>1. /\ Show(p, "devices", "none") /\ screen[p] = "devices" /\ call[p] # "checkUser"
        /\ UNCHANGED <<users, owner, queue, chosen, maker, tab, account, crashed, faults>>
        /\ StreamSame(p)
    BY <1>5 DEF loadDevices, outbox, server, history, IInv, Own, CallOnScreen, StreamSame
  <2>2. Loading(p) /\ (tab[p].viewControllers => Home(p))
    BY <2>1 DEF Loading, Home
  <2>3. "devices" \in Screens /\ "none" \in Calls
    BY DEF Screens, Calls
  <2>4. QED
    BY <1>0, <2>1, <2>2, <2>3, ShowOneInv
<1>6. QED
  BY <1>1, <1>2, <1>3, <1>4, <1>5 DEF Answer

\* A write on its way through the server, or a device that is registered, changes
\* nothing a phone reads.
LEMMA ServerOneInv ==
  ASSUME TypeOK, IInv, NEW p \in Phones, OneInv(p),
         Deliver(p) \/ \E uid \in Users, d \in Devices : Register(uid, d)
  PROVE  OneInv(p)'
<1>1. UNCHANGED <<screen, call, tab, devices, crashed, account, chosen, faults>>
  BY DEF Deliver, ServerApplies, WriteResult, StreamRestarts, Register, ui, history
<1>2. /\ \A uid \in Users : Kept(p, uid)' /\ Document(p, uid)' = Document(p, uid)
      /\ Landed(p)'
  <2>1. CASE ServerApplies(p)
    BY <2>1, ServerAppliesKeeps DEF OneInv
  <2>2. CASE WriteResult(p)
    BY <2>2, WriteResultKeeps DEF OneInv
  <2>3. CASE StreamRestarts(p)
    BY <1>1, <2>3, SameKept, RestartAt DEF StreamRestarts, server, StreamSame
  <2>4. ASSUME NEW u \in Users, NEW d \in Devices, Register(u, d)
        PROVE  /\ \A uid \in Users : Kept(p, uid)' /\ Document(p, uid)' = Document(p, uid)
               /\ Landed(p)'
    <3>1. ASSUME NEW v \in Users, chosen[v] # None PROVE owner'[chosen[v]] = owner[chosen[v]]
      <4>1. chosen[v] \in Devices /\ owner[chosen[v]] = v
        BY <3>1 DEF OneInv, Kept, TypeOK
      <4>2. owner[d] = None /\ owner' = [owner EXCEPT ![d] = u]
        BY <2>4 DEF Register
      <4>3. chosen[v] # d
        BY <4>1, <4>2, DistinctAssumption
      <4>4. QED
        BY <4>1, <4>2, <4>3 DEF TypeOK
    <3>2. users' = users /\ queue' = queue /\ sent' = sent /\ maker' = maker
      BY <2>4 DEF Register, outbox
    <3>3. Landed(p)'
      BY <1>1, <3>2, LandedFrame DEF OneInv
    <3>4. QED
      BY <1>1, <3>1, <3>2, <3>3, KeptFrame DEF OneInv
  <2>5. QED
    BY <2>1, <2>2, <2>3, <2>4 DEF Deliver
<1>3. /\ Loading(p) => account[p] \in Users
      /\ account[p] # None => account[p] \in Users
  BY SomebodySignedIn DEF Loading, TypeOK
<1>4. Exists(p)'
  BY <1>1, <1>2, <1>3 DEF Exists, Loading, OneInv
<1>5. QED
  BY <1>1, <1>2, <1>4 DEF OneInv, Carries, Home

LEMMA StepOneInv ==
  ASSUME TypeOK, IInv, NEW p \in Phones, Alone(p), OneInv(p), [Next]_vars
  PROVE  OneInv(p)'
<1>0. {"off", "login"} \subseteq Screens /\ "none" \in Calls
  BY DEF Screens, Calls
<1>1. CASE Launch(p)
  <2>1. /\ screen[p] = "off" /\ crashed' = crashed \ {p}
        /\ UNCHANGED <<users, owner, queue, chosen, maker, account, faults>> /\ StreamSame(p)
    BY <1>1 DEF Launch, outbox, server, history, StreamSame
  <2>2. call[p] # "checkUser" /\ (faults = 0 => crashed = {} /\ crashed' = {})
    BY <2>1 DEF IInv, Own, CallOnScreen, OneInv, Exists
  <2>3. CASE account[p] # None
    <3>1. PresentTabBar(p)
      BY <1>1, <2>3 DEF Launch
    <3>2. /\ \A uid \in Users : Kept(p, uid)'
          /\ \A uid : Document(p, uid)' = Document(p, uid)
          /\ Landed(p)'
      BY <2>1, SameKept
    <3>3. faults' = 0 => Document(p, account[p])' # Missing
      BY <2>1, <2>2, <2>3, <3>2 DEF OneInv, Exists
    <3>4. QED
      BY <2>1, <2>2, <3>1, <3>2, <3>3, PresentOneInv
  <2>4. CASE account[p] = None
    <3>1. Show(p, "login", "none") /\ tab' = tab
      BY <1>1, <2>4 DEF Launch
    <3>2. QED
      BY <1>0, <2>1, <2>2, <2>4, <3>1, ShowOneInv
  <2>5. QED
    BY <2>3, <2>4
<1>2. CASE Kill(p)
  <2>1. /\ Show(p, "off", "none") /\ faults' = faults + 1
        /\ UNCHANGED <<users, owner, queue, chosen, maker, tab>> /\ StreamSame(p)
    BY <1>2, RestartAt DEF Kill, Fault, server, StreamSame
  <2>2. faults' # 0
    BY <2>1, BoundsAssumption DEF TypeOK
  <2>3. QED
    BY <1>0, <2>1, <2>2, ShowOneInv
<1>3. CASE ReadError(p)
  <2>1. /\ faults' = faults + 1 /\ UNCHANGED <<users, owner, queue, chosen, maker, account, tab>>
        /\ \/ Show(p, "off", "none")
           \/ Show(p, screen[p], "none")
        /\ StreamSame(p)
    BY <1>3, RestartAt DEF ReadError, Fault, Crash, GiveUp, server, StreamSame
  <2>2. faults' # 0
    BY <2>1, BoundsAssumption DEF TypeOK
  <2>3. screen[p] \in Screens
    BY DEF TypeOK
  <2>4. /\ screen[p] = "devices" => Loading(p)
        /\ screen[p] \in {"tabBar", "devices"} => (tab[p].viewControllers => Home(p))
    BY DEF Loading, Home
  <2>5. QED
    BY <1>0, <2>1, <2>2, <2>3, <2>4, ShowOneInv
<1>4. CASE Tap(p) \/ Answer(p)
  BY <1>4, TapOneInv, AnswerOneInv
<1>5. CASE Deliver(p) \/ \E uid \in Users, d \in Devices : Register(uid, d)
  BY <1>5, ServerOneInv
<1>6. CASE UNCHANGED vars
  BY <1>6, SameKept DEF vars, server, outbox, ui, history, StreamSame, OneInv, Exists, Loading, Carries, Home
<1>7. QED
  BY <1>1, <1>2, <1>3, <1>4, <1>5, <1>6 DEF Alone, Next

\* What the invariant of one phone says of the properties.
LEMMA OneInvImplies ==
  ASSUME TypeOK, IInv, NEW p \in Phones, Alone(p), OneInv(p)
  PROVE  CreatedOnlyIfMissing /\ NoCrash /\ HomeShowsChoice /\ ChoiceStored
<1>1. CreatedOnlyIfMissing
  <2>1. ASSUME NEW uid \in Users, NEW i \in DOMAIN queue[p][uid], queue[p][uid][i].kind = "setData"
        PROVE  users[uid] = Missing \/ (i = 1 /\ maker[uid] = p)
    <3>1. PICK q \in Seq(Writes) : q = queue[p][uid]
      BY DEF TypeOK
    <3>2. i \in 1 .. Len(q) /\ q # <<>> /\ q[i].kind = "setData"
      BY <2>1, <3>1
    <3>3. i = 1
      BY <3>1, <3>2 DEF OneInv, Kept, Orderly
    <3>4. QED
      BY <3>1, <3>2, <3>3 DEF OneInv, Kept
  <2>2. QED
    BY <2>1 DEF CreatedOnlyIfMissing, Alone
<1>2. NoCrash
  <2>1. faults # 0 => faults > 0
    BY BoundsAssumption DEF TypeOK
  <2>2. QED
    BY <2>1 DEF NoCrash, OneInv, Exists
<1>3. HomeShowsChoice
  <2>1. Home(p) => account[p] # None
    BY SomebodySignedIn, DistinctAssumption DEF Home
  <2>2. QED
    BY <2>1 DEF HomeShowsChoice, OneInv, Carries, Alone
<1>4. ChoiceStored
  BY DEF ChoiceStored, OneInv, Kept, Document, Latest, Alone
<1>5. QED
  BY <1>1, <1>2, <1>3, <1>4

(***************************************************************************)
(* Whoever uses a phone after whom, with any number of phones, accounts,   *)
(* devices and faults, a home screen belongs to the account signed in: the *)
(* chain of reads MainTabBarController starts for one user is never shown  *)
(* to another, since userLogout replaces the tab bar and sign-in makes a   *)
(* new one, and the device and the list in it are that account's.          *)
(***************************************************************************)
THEOREM HomeIsOwnAlways == Spec => []HomeIsOwn
<1>1. Init => IInv
  BY InitIInv
<1>2. IInv /\ [Next]_vars => IInv'
  BY StepIInv
<1>3. IInv => HomeIsOwn
  BY IInvHomeIsOwn
<1> QED BY <1>1, <1>2, <1>3, PTL DEF Spec

(***************************************************************************)
(* Every variable keeps its type, for any number of phones and accounts:   *)
(* the reads and writes are those of users, devices and queued writes that *)
(* exist, whatever the order of taps, answers and faults.                  *)
(***************************************************************************)
THEOREM TypeCorrect == Spec => []TypeOK
<1>1. Init => TypeOK /\ IInv
  BY InitTypeOK, InitIInv
<1>2. TypeOK /\ IInv /\ [Next]_vars => (TypeOK /\ IInv)'
  BY StepTypeOK, StepIInv
<1>3. QED
  BY <1>1, <1>2, PTL DEF Spec

\* The invariant of a phone that is the only one.
LEMMA OneInvAlways ==
  ASSUME NEW p \in Phones, Alone(p)
  PROVE  Spec => [](CreatedOnlyIfMissing /\ NoCrash /\ HomeShowsChoice /\ ChoiceStored)
<1> DEFINE Inv == TypeOK /\ IInv /\ OneInv(p)
<1>1. Init => Inv
  BY InitTypeOK, InitIInv, InitOneInv
<1>2. Inv /\ [Next]_vars => Inv'
  BY StepTypeOK, StepIInv, StepOneInv
<1>3. Inv => CreatedOnlyIfMissing /\ NoCrash /\ HomeShowsChoice /\ ChoiceStored
  BY OneInvImplies
<1> HIDE DEF Inv
<1>4. QED
  BY <1>1, <1>2, <1>3, PTL DEF Spec

(***************************************************************************)
(* On one phone, with any number of accounts, devices, taps and faults,    *)
(* sign-in writes a users document over none but the one it has made:      *)
(* checkUser reads through the writes the phone still holds, so the        *)
(* setData it did not wait for is the first and only one in the phone's    *)
(* queue, and while it is there, to be sent again if the app ends or the   *)
(* stream is lost before its result is read, the document is its own.      *)
(***************************************************************************)
THEOREM CreatedOnceOnOnePhone ==
  ASSUME NEW p, Phones = {p} PROVE Spec => []CreatedOnlyIfMissing
<1>1. p \in Phones /\ Alone(p)
  BY DEF Alone
<1>2. Spec => [](CreatedOnlyIfMissing /\ NoCrash /\ HomeShowsChoice /\ ChoiceStored)
  BY <1>1, OneInvAlways
<1>3. QED
  BY <1>2, PTL

(***************************************************************************)
(* On one phone, nothing the app unwraps is nil until something fails:     *)
(* getUser's data()! finds the document createUser has queued, whoever has *)
(* signed in and out before.                                               *)
(***************************************************************************)
THEOREM NoCrashOnOnePhone ==
  ASSUME NEW p, Phones = {p} PROVE Spec => []NoCrash
<1>1. p \in Phones /\ Alone(p)
  BY DEF Alone
<1>2. Spec => [](CreatedOnlyIfMissing /\ NoCrash /\ HomeShowsChoice /\ ChoiceStored)
  BY <1>1, OneInvAlways
<1>3. QED
  BY <1>2, PTL

(***************************************************************************)
(* On one phone, the home shows the device its user chose last, although   *)
(* setCurrDevice's write is not waited for, through any number of choices, *)
(* accounts, restarts and failed reads: what the chain reads holds the     *)
(* choice, and the chain carries it to the home.                           *)
(***************************************************************************)
THEOREM ChoiceShownOnOnePhone ==
  ASSUME NEW p, Phones = {p} PROVE Spec => []HomeShowsChoice
<1>1. p \in Phones /\ Alone(p)
  BY DEF Alone
<1>2. Spec => [](CreatedOnlyIfMissing /\ NoCrash /\ HomeShowsChoice /\ ChoiceStored)
  BY <1>1, OneInvAlways
<1>3. QED
  BY <1>2, PTL

(***************************************************************************)
(* On one phone, the server's document of a user whose writes have all had *)
(* their results names the device the user chose last, whatever was sent   *)
(* again on the way: the writes of a stream that ended after they were     *)
(* applied are all repeated, and the last of them is the choice.           *)
(***************************************************************************)
THEOREM ChoiceStoredOnOnePhone ==
  ASSUME NEW p, Phones = {p} PROVE Spec => []ChoiceStored
<1>1. p \in Phones /\ Alone(p)
  BY DEF Alone
<1>2. Spec => [](CreatedOnlyIfMissing /\ NoCrash /\ HomeShowsChoice /\ ChoiceStored)
  BY <1>1, OneInvAlways
<1>3. QED
  BY <1>2, PTL
=============================================================================
