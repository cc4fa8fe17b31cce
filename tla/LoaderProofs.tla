---------------------------- MODULE LoaderProofs ----------------------------
(***************************************************************************)
(* What Loader promises, for any number of interfaces, maps, loads and     *)
(* fwload processes: tools and programs that no removal of pins has        *)
(* separated work on the same maps, a reload keeps what is in them, and    *)
(* the pinned program is one that runs.                                    *)
(***************************************************************************)
EXTENDS Loader, TLAPS

Placed == \A a \in Admins : admin[a].pc # "off" => admin[a].iface \in Ifaces

Types == /\ pins \in [pinned -> Nat]
         /\ attached \in [Ifaces -> ProgType]
         /\ written \subseteq Names \X Nat /\ loads \in Nat
         /\ admin \in [Admins -> AdminType]
         /\ Placed
         /\ tool \in ToolType
         /\ stranded \subseteq Ifaces /\ abandoned \subseteq Nat

LEMMA RestTypes == None \in ProgType /\ Off \in AdminType /\ Closed \in ToolType
  BY DEF None, Off, Closed, ProgType, AdminType, ToolType, Phases

(* Removing pins leaves the processes in their types. *)
LEMMA RemovalTypes ==
    ASSUME Types, NEW a \in Admins, NEW next \in AdminType, NEW gone, Removal(a, next, gone),
           next.pc # "off" => next.iface \in Ifaces
    PROVE  admin' \in [Admins -> AdminType] /\ Placed' /\ tool' \in ToolType
  <1> DEFINE lost == \E n \in gone \cap Names : pins[n] # 0
  <1>1. ASSUME NEW b \in Admins
        PROVE [admin[b] EXCEPT !.stale = @ \/ (lost /\ admin[b].pc # "off")] \in AdminType
    <2>1. admin[b].stale \in BOOLEAN
        BY DEF Types, AdminType
    <2>2. (admin[b].stale \/ (lost /\ admin[b].pc # "off")) \in BOOLEAN
        OBVIOUS
    <2> HIDE DEF lost
    <2> QED
        BY <2>1, <2>2 DEF Types, AdminType
  <1>2. [tool EXCEPT !.sound = @ /\ ~lost] \in ToolType
    <2>1. (tool.sound /\ ~lost) \in BOOLEAN
        OBVIOUS
    <2> HIDE DEF lost
    <2> QED
        BY <2>1 DEF Types, ToolType
  <1>3. ASSUME NEW b \in Admins, admin'[b].pc # "off" PROVE admin'[b].iface \in Ifaces
    <2>1. CASE b = a
        BY <1>3, <2>1 DEF Removal
    <2>2. CASE b # a
      <3>1. admin[b] \in AdminType
          BY DEF Types
      <3>2. admin'[b].pc = admin[b].pc /\ admin'[b].iface = admin[b].iface
          BY <2>2, <3>1 DEF Removal, AdminType
      <3> QED
          BY <1>3, <3>2 DEF Types, Placed
    <2> QED
        BY <2>1, <2>2
  <1> QED
      BY <1>1, <1>2, <1>3 DEF Removal, Placed

(* A process that ends leaves the others where they are. *)
LEMMA EndTypes ==
    ASSUME Types, NEW a \in Admins, admin' = [admin EXCEPT ![a] = Off]
    PROVE  admin' \in [Admins -> AdminType] /\ Placed'
  <1>1. admin' \in [Admins -> AdminType]
      BY RestTypes DEF Types
  <1>2. Off.pc = "off"
      BY DEF Off
  <1> QED
      BY <1>1, <1>2 DEF Types, Placed

(* The types hold in the initial state and through every step. *)
LEMMA TypeInit == Init => Types
  <1>1. Off.pc = "off"
      BY DEF Off
  <1> QED
      BY <1>1, LoaderAssumption, RestTypes DEF Init, Types, Placed

LEMMA TypeStep == Types /\ [Next]_vars => Types'
  <1> SUFFICES ASSUME Types, [Next]_vars PROVE Types'
      OBVIOUS
  <1>z. Off.pc = "off"
      BY DEF Off
  <1>a. PROG \in pinned /\ Names \subseteq pinned /\ "config" \in Names
      BY LoaderAssumption DEF pinned
  <1> USE DEF Types
  <1>1. ASSUME NEW a \in Admins, NEW i \in Ifaces, StartLoad(a, i) PROVE Types'
    <2> DEFINE rec == [Off EXCEPT !.pc = "load", !.iface = i, !.id = loads + 1, !.todo = Names]
    <2>1. loads + 1 \in Nat
        OBVIOUS
    <2>2. rec \in AdminType /\ rec.iface \in Ifaces
        BY RestTypes, <1>a, <2>1 DEF AdminType, Phases, Off
    <2>3. admin' = [admin EXCEPT ![a] = rec]
        BY <1>1 DEF StartLoad
    <2> HIDE DEF rec
    <2> QED
        BY <1>1, <2>1, <2>2, <2>3 DEF StartLoad, Placed
  <1>2. ASSUME NEW a \in Admins, NEW n \in Names, OpenMap(a, n) PROVE Types'
    <2> DEFINE id == IF Reusable(n) THEN pins[n] ELSE admin[a].id
               rec == [admin[a] EXCEPT !.todo = @ \ {n}, !.maps[n] = id,
                                       !.new = IF Reusable(n) THEN @ ELSE @ \cup {n}]
    <2>1. id \in Nat
        BY <1>a DEF AdminType
    <2>2. rec \in AdminType /\ rec.iface = admin[a].iface
        BY <2>1 DEF AdminType
    <2>3. admin' = [admin EXCEPT ![a] = rec] /\ pins' = [pins EXCEPT ![n] = id]
        BY <1>2 DEF OpenMap
    <2> HIDE DEF rec
    <2>4. Placed'
        BY <1>2, <2>2, <2>3 DEF Placed, OpenMap
    <2> QED
        BY <1>2, <1>a, <2>1, <2>2, <2>3, <2>4 DEF OpenMap
  <1>3. ASSUME NEW a \in Admins, LoadFails(a) PROVE Types'
    <2>1. pins' \in [pinned -> Nat] /\ stranded' \subseteq Ifaces
        BY <1>3 DEF LoadFails, Removal
    <2>2. admin' \in [Admins -> AdminType] /\ Placed' /\ tool' \in ToolType
        BY <1>3, <1>z, RemovalTypes, RestTypes DEF LoadFails
    <2>3. admin[a].id \in Nat
        BY DEF AdminType
    <2> QED
        BY <1>3, <2>1, <2>2, <2>3 DEF LoadFails
  <1>4. ASSUME NEW a \in Admins, NEW p \in Phases, admin' = [admin EXCEPT ![a].pc = p],
               admin[a].pc # "off"
        PROVE admin' \in [Admins -> AdminType] /\ Placed'
    <2> DEFINE rec == [admin[a] EXCEPT !.pc = p]
    <2>1. rec \in AdminType /\ rec.iface = admin[a].iface
        BY DEF AdminType
    <2>2. admin' = [admin EXCEPT ![a] = rec]
        BY <1>4
    <2> HIDE DEF rec
    <2> QED
        BY <1>4, <2>1, <2>2 DEF Placed
  <1>5. ASSUME NEW a \in Admins, Loaded(a) \/ WriteConfig(a) \/ UnlinkProg(a) \/ PinProg(a)
        PROVE Types'
    <2>1. admin' \in [Admins -> AdminType] /\ Placed'
        BY <1>5, <1>4 DEF Loaded, WriteConfig, UnlinkProg, PinProg, Phases
    <2>2. pins' \in [pinned -> Nat]
      <3>1. admin[a].id \in Nat
          BY DEF AdminType
      <3> QED
          BY <1>5, <1>a, <3>1 DEF Loaded, WriteConfig, UnlinkProg, PinProg, Vacated
    <2> QED
        BY <1>5, <2>1, <2>2 DEF Loaded, WriteConfig, UnlinkProg, PinProg
  <1>6. ASSUME NEW a \in Admins, NEW mode \in {"native", "skb"}, Attach(a, mode)
        PROVE Types'
    <2>1. [prog |-> admin[a].id, mode |-> mode, maps |-> admin[a].maps] \in ProgType
        BY DEF AdminType, ProgType
    <2>2. attached' \in [Ifaces -> ProgType]
        BY <1>6, <2>1 DEF Attach
    <2>3. stranded' \subseteq Ifaces
      <3>1. admin[a].iface \in Ifaces
          BY <1>6 DEF Attach, Placed
      <3> QED
          BY <1>6, <3>1 DEF Attach
    <2> QED
        BY <1>6, <2>2, <2>3, EndTypes DEF Attach
  <1>7. ASSUME NEW a \in Admins, Fails(a) \/ Kill(a) \/ Unloaded(a) PROVE Types'
    <2>1. admin[a].id \in Nat /\ pins[PROG] \in Nat
        BY <1>a DEF AdminType
    <2> QED
        BY <1>7, <2>1, EndTypes DEF Fails, Kill, Unloaded, Undone
  <1>8. ASSUME NEW a \in Admins, NEW i \in Ifaces, StartUnload(a, i) PROVE Types'
    <2> DEFINE rec == [Off EXCEPT !.pc = "detach", !.iface = i]
    <2>1. rec \in AdminType /\ rec.iface \in Ifaces
        BY RestTypes DEF AdminType, Phases, Off
    <2>2. admin' = [admin EXCEPT ![a] = rec]
        BY <1>8 DEF StartUnload
    <2> HIDE DEF rec
    <2> QED
        BY <1>8, <2>1, <2>2 DEF StartUnload, Placed
  <1>9. ASSUME NEW a \in Admins, Detach(a) PROVE Types'
    <2> DEFINE rec == [admin[a] EXCEPT !.pc = "unlink", !.todo = pinned,
                                       !.missed = attached'[admin[a].iface] # None]
    <2>1. rec \in AdminType /\ rec.iface = admin[a].iface
        BY DEF AdminType, Phases
    <2>2. admin' = [admin EXCEPT ![a] = rec]
        BY <1>9 DEF Detach
    <2>3. attached' \in [Ifaces -> ProgType]
        BY <1>9, RestTypes DEF Detach
    <2> HIDE DEF rec
    <2>4. Placed'
        BY <1>9, <2>1, <2>2 DEF Placed, Detach
    <2> QED
        BY <1>9, <2>1, <2>2, <2>3, <2>4 DEF Detach
  <1>10. ASSUME NEW a \in Admins, NEW n \in pinned, Unlink(a, n) PROVE Types'
    <2>1. pins' \in [pinned -> Nat] /\ stranded' \subseteq Ifaces
        BY <1>10 DEF Unlink, Removal
    <2> DEFINE rec == [admin[a] EXCEPT !.todo = @ \ {n}]
    <2>2. rec \in AdminType /\ rec.iface \in Ifaces
        BY <1>10 DEF AdminType, Unlink, Placed
    <2>3. admin' \in [Admins -> AdminType] /\ Placed' /\ tool' \in ToolType
        BY <1>10, <2>2, RemovalTypes DEF Unlink
    <2> QED
        BY <1>10, <2>1, <2>3 DEF Unlink
  <1>11. ASSUME Tool PROVE Types'
    <2>1. ASSUME StartTool \/ Opened \/ ProgInfoFails \/ Close PROVE Types'
        BY <2>1, RestTypes DEF StartTool, Opened, ProgInfoFails, Close, ToolType, Placed
    <2>2. ASSUME NEW n \in Names, OpenPinned(n) PROVE Types'
      <3>1. [tool EXCEPT !.todo = @ \ {n}, !.fds[n] = pins[n]] \in ToolType
          BY <1>a DEF ToolType
      <3> QED
          BY <2>2, <3>1, RestTypes DEF OpenPinned, Placed
    <2>3. ASSUME NEW n \in Edited, Write(n) \/ Erase(n) PROVE Types'
      <3>1. <<n, tool.fds[n]>> \in Names \X Nat
          BY LoaderAssumption DEF ToolType
      <3> QED
          BY <2>3, <3>1 DEF Write, Erase, Placed
    <2> QED
        BY <1>11, <2>1, <2>2, <2>3 DEF Tool
  <1>12. CASE UNCHANGED vars
      BY <1>12 DEF vars, Placed
  <1> QED
      BY <1>1, <1>2, <1>3, <1>5, <1>6, <1>7, <1>8, <1>9, <1>10, <1>11, <1>12
         DEF Next, Load, Unload

-----------------------------------------------------------------------------
(* The inductive invariant *)

LoadPhases == {"load", "config", "unpin", "pin", "attach"}

(* Two processes never work on one interface. *)
Exclusive ==
    \A a, b \in Admins :
        admin[a].pc # "off" /\ admin[b].iface = admin[a].iface => a = b

(* A process r under way.  An unload that goes on to the pins without a      *)
(* warning has detached; one that has lost pins works on an interface that   *)
(* has lost them too; a load has opened every map once it gets past "load",  *)
(* has created its own under its own id, and holds what is pinned unless     *)
(* pins were removed.                                                        *)
Sane(r) ==
    /\ r.pc = "unlink" /\ ~r.missed => attached[r.iface] = None
    /\ r.pc # "off" /\ r.stale => ~Running(r.iface)
    /\ r.pc \in LoadPhases =>
         /\ r.id # 0
         /\ r.pc # "load" => r.todo = {}
         /\ \A n \in r.new : n \notin r.todo /\ r.maps[n] = r.id
         /\ \A n \in Names \ r.todo : r.maps[n] # 0 /\ (~r.stale => r.maps[n] = pins[n])

AdminsSane == \A a \in Admins : Sane(admin[a])

(* A program has all its maps, and a tool what it has opened so far. *)
ProgramsWhole == \A i \in Ifaces : attached[i] # None => \A n \in Names : attached[i].maps[n] # 0

ToolConsistent ==
    /\ tool.pc = "ready" => tool.todo = {}
    /\ tool.pc # "off" => \A n \in Names \ tool.todo :
          tool.fds[n] # 0 /\ (tool.sound => tool.fds[n] = pins[n])

Inv == /\ Types /\ Exclusive /\ AdminsSane
       /\ ProgramsWhole /\ ToolConsistent /\ PinsReachProgram

(* A process that is off, and one that has just begun. *)
LEMMA OffSane == Off.pc = "off" /\ Off.iface = "none" /\ Sane(Off)
  BY DEF Off, Sane, LoadPhases

LEMMA InvInit == Init => Inv
  <1> SUFFICES ASSUME Init PROVE Inv
      OBVIOUS
  <1>1. Types
      BY TypeInit
  <1>2. Exclusive /\ AdminsSane
      BY OffSane DEF Init, Exclusive, AdminsSane
  <1>3. \A i \in Ifaces : attached[i] = None
      BY DEF Init
  <1>4. tool.pc = "off"
      BY DEF Init, Closed
  <1> QED
      BY <1>1, <1>2, <1>3, <1>4 DEF Inv, ProgramsWhole, ToolConsistent, PinsReachProgram, Running

(* A step of one process that leaves the programs and the tool alone and no  *)
(* pinned map replaced: what the others rely on stays.                       *)
LEMMA OneProcess ==
    ASSUME Inv, Types', UNCHANGED <<attached, stranded, tool>>, NEW a \in Admins,
           \A n \in Names : pins[n] # 0 => pins'[n] = pins[n],
           \A b \in Admins \ {a} : admin'[b] = admin[b],
           admin'[a].iface \in {admin[a].iface, "none"}
             \/ \A b \in Admins : admin[b].iface # admin'[a].iface,
           admin'[a].pc # "off" => admin[a].pc # "off"
             \/ \A b \in Admins : admin[b].iface # admin'[a].iface,
           Sane(admin[a])'
    PROVE  Inv'
  <1>1. Exclusive'
    <2> SUFFICES ASSUME NEW b \in Admins, NEW c \in Admins, admin'[b].pc # "off",
                        admin'[c].iface = admin'[b].iface
                 PROVE  b = c
        BY DEF Exclusive
    <2>1. admin'[b].iface \in Ifaces /\ "none" \notin Ifaces
        BY LoaderAssumption DEF Types, Placed
    <2> QED
        BY <2>1 DEF Inv, Exclusive
  <1>2. AdminsSane'
    <2>1. ASSUME NEW b \in Admins \ {a} PROVE Sane(admin[b])'
      <3>1. Sane(admin[b]) /\ admin'[b] = admin[b]
          BY DEF Inv, AdminsSane
      <3> QED
          BY <3>1 DEF Sane, Running
    <2> QED
        BY <2>1 DEF AdminsSane
  <1>3. ProgramsWhole' /\ PinsReachProgram'
      BY DEF Inv, ProgramsWhole, PinsReachProgram, Running
  <1>4. ToolConsistent'
      BY DEF Inv, ToolConsistent
  <1> QED
      BY <1>1, <1>2, <1>3, <1>4 DEF Inv

(* Pins are removed: if maps go, no program is left that could be reached.   *)
LEMMA PinsRemoved ==
    ASSUME Inv, Types', UNCHANGED attached, stranded \subseteq stranded',
           NEW a \in Admins, NEW next, NEW gone, Removal(a, next, gone),
           (\E n \in gone \cap Names : pins[n] # 0) => \A i \in Ifaces : ~Running(i)',
           next.iface \in {admin[a].iface, "none"},
           next.pc # "off" => admin[a].pc # "off" /\ next.iface = admin[a].iface,
           Sane(admin[a])'
    PROVE  Inv'
  <1> DEFINE lost == \E n \in gone \cap Names : pins[n] # 0
  <1>a. admin'[a] = next
      BY DEF Removal
  <1>b. ASSUME NEW b \in Admins \ {a}
        PROVE  admin'[b] = [admin[b] EXCEPT !.stale = @ \/ (lost /\ admin[b].pc # "off")]
      BY DEF Removal
  <1>c. Names \subseteq pinned
      BY DEF pinned
  <1>d. ~lost => \A n \in Names : pins'[n] = pins[n]
      BY <1>c DEF Removal
  <1>f. tool'.pc = tool.pc /\ tool'.todo = tool.todo /\ tool'.fds = tool.fds
        /\ (tool'.sound => tool.sound /\ ~lost)
      BY DEF Removal, Inv, Types, ToolType
  <1>g. ASSUME NEW b \in Admins \ {a}
        PROVE  /\ admin'[b].pc = admin[b].pc /\ admin'[b].iface = admin[b].iface
               /\ admin'[b].id = admin[b].id /\ admin'[b].todo = admin[b].todo
               /\ admin'[b].maps = admin[b].maps /\ admin'[b].new = admin[b].new
               /\ admin'[b].missed = admin[b].missed
               /\ admin'[b].stale <=> (admin[b].stale \/ (lost /\ admin[b].pc # "off"))
    <2>1. admin[b] \in AdminType
        BY DEF Inv, Types
    <2> HIDE DEF lost
    <2> QED
        BY <1>b, <2>1 DEF AdminType
  <1> HIDE DEF lost
  <1>1. Exclusive'
    <2> SUFFICES ASSUME NEW b \in Admins, NEW c \in Admins, admin'[b].pc # "off",
                        admin'[c].iface = admin'[b].iface
                 PROVE  b = c
        BY DEF Exclusive
    <2>1. admin'[b].iface \in Ifaces /\ "none" \notin Ifaces
        BY LoaderAssumption DEF Types, Placed
    <2>2. admin[b].pc # "off" /\ admin[b].iface = admin'[b].iface
        BY <1>a, <1>g
    <2>3. admin[c].iface = admin'[c].iface
        BY <1>a, <1>g, <2>1
    <2> QED
        BY <2>2, <2>3 DEF Inv, Exclusive
  <1>2. AdminsSane'
    <2>1. ASSUME NEW b \in Admins \ {a} PROVE Sane(admin[b])'
      <3>1. Sane(admin[b])
          BY DEF Inv, AdminsSane
      <3>2. admin'[b].pc # "off" => admin'[b].iface \in Ifaces
          BY DEF Types, Placed
      <3>3. CASE lost
        <4>1. admin'[b].pc # "off" => ~Running(admin[b].iface)'
            BY <3>2, <3>3 DEF lost
        <4>2. admin'[b].pc \in LoadPhases => admin'[b].stale
            BY <1>g, <3>3 DEF LoadPhases
        <4> QED
            BY <1>g, <3>1, <4>1, <4>2 DEF Sane
      <3>4. CASE ~lost
        <4>1. ~Running(admin[b].iface) => ~Running(admin[b].iface)'
            BY <1>g DEF Running
        <4> QED
            BY <1>d, <1>g, <3>1, <3>4, <4>1 DEF Sane
      <3> QED
          BY <3>3, <3>4
    <2> QED
        BY <2>1 DEF AdminsSane
  <1>3. ProgramsWhole'
      BY DEF Inv, ProgramsWhole
  <1>4. PinsReachProgram'
    <2>1. CASE lost
        BY <2>1 DEF lost, PinsReachProgram
    <2>2. CASE ~lost
        BY <1>d, <2>2 DEF Inv, PinsReachProgram, Running
    <2> QED
        BY <2>1, <2>2
  <1>5. ToolConsistent'
      BY <1>d, <1>f DEF Inv, ToolConsistent
  <1> QED
      BY <1>1, <1>2, <1>3, <1>4, <1>5 DEF Inv

(* Every step keeps the invariant. *)
LEMMA LoadStep == ASSUME Inv, Types', NEW a \in Admins, Load(a) PROVE Inv'
  <1>z. admin[a] \in AdminType /\ Sane(admin[a])
      BY DEF Inv, Types, AdminsSane
  <1>y. PROG \notin Names /\ Names \subseteq pinned /\ PROG \in pinned
      BY LoaderAssumption DEF pinned
  <1>x. pins \in [pinned -> Nat] /\ admin \in [Admins -> AdminType]
      BY DEF Inv, Types
  <1>1. ASSUME NEW i \in Ifaces, StartLoad(a, i) PROVE Inv'
    <2> DEFINE rec == [Off EXCEPT !.pc = "load", !.iface = i, !.id = loads + 1, !.todo = Names]
    <2>1. admin'[a] = rec
        BY <1>1, <1>x DEF StartLoad
    <2>2. rec.iface = i /\ rec.pc = "load"
        BY DEF Off
    <2>3. Sane(admin[a])'
      <3>1. loads + 1 # 0
          BY DEF Inv, Types
      <3>2. rec.id = loads + 1 /\ rec.todo = Names /\ rec.new = {} /\ rec.stale = FALSE
          BY DEF Off
      <3> HIDE DEF rec
      <3> QED
          BY <2>1, <2>2, <3>1, <3>2 DEF Sane
    <2> HIDE DEF rec
    <2> QED
        BY <1>1, <2>1, <2>2, <2>3, OneProcess DEF StartLoad, Free
  <1>2. ASSUME NEW n \in Names, OpenMap(a, n) PROVE Inv'
    <2> DEFINE id == IF Reusable(n) THEN pins[n] ELSE admin[a].id
               rec == [admin[a] EXCEPT !.todo = @ \ {n}, !.maps[n] = id,
                                       !.new = IF Reusable(n) THEN @ ELSE @ \cup {n}]
    <2>1. admin'[a] = rec /\ pins' = [pins EXCEPT ![n] = id]
        BY <1>2, <1>x DEF OpenMap
    <2>2. id # 0 /\ (pins[n] # 0 => id = pins[n])
        BY <1>2, <1>z DEF Reusable, Sane, OpenMap, LoadPhases
    <2>3. /\ rec.pc = "load" /\ rec.iface = admin[a].iface /\ rec.id = admin[a].id
          /\ rec.todo = admin[a].todo \ {n} /\ rec.maps = [admin[a].maps EXCEPT ![n] = id]
          /\ rec.new \subseteq admin[a].new \cup {n} /\ rec.stale = admin[a].stale
          /\ n \in rec.new => n \in admin[a].new \/ id = admin[a].id
        BY <1>2, <1>z DEF AdminType, OpenMap
    <2>4. admin[a].maps \in [Names -> Nat] /\ admin[a].new \subseteq Names
        BY <1>z DEF AdminType
    <2> HIDE DEF rec, id
    <2>5. \A m \in Names : pins[m] # 0 => pins'[m] = pins[m]
        BY <1>x, <1>y, <2>1, <2>2
    <2>6. Sane(admin[a])'
      <3>1. rec.stale => ~Running(rec.iface)
          BY <1>2, <1>z, <2>3 DEF Sane, OpenMap
      <3>3. admin'[a].stale => ~Running(admin[a].iface)'
          BY <1>2, <2>1, <3>1 DEF Running, OpenMap
      <3>4. n \notin admin[a].new
          BY <1>2, <1>z DEF Sane, OpenMap, LoadPhases
      <3>5. \A m \in rec.new : m \notin rec.todo /\ rec.maps[m] = rec.id
          BY <1>2, <1>z, <2>3, <2>4, <3>4 DEF Sane, OpenMap, LoadPhases
      <3>6. ASSUME NEW m \in Names \ rec.todo
            PROVE  rec.maps[m] # 0 /\ (~rec.stale => rec.maps[m] = pins'[m])
        <4>1. CASE m = n
            BY <1>x, <1>y, <2>1, <2>2, <2>3, <2>4, <4>1
        <4>2. CASE m # n
          <5>1. m \in Names \ admin[a].todo /\ rec.maps[m] = admin[a].maps[m]
              BY <2>3, <2>4, <4>2
          <5> QED
              BY <1>2, <1>z, <1>x, <1>y, <2>1, <2>3, <4>2, <5>1 DEF Sane, OpenMap, LoadPhases
        <4> QED
            BY <4>1, <4>2
      <3>7. rec.id # 0
          BY <1>2, <1>z, <2>3 DEF Sane, OpenMap, LoadPhases
      <3> QED
          BY <2>1, <2>3, <3>3, <3>5, <3>6, <3>7 DEF Sane
    <2>7. UNCHANGED <<attached, stranded, tool>> /\ admin[a].pc # "off"
          /\ \A b \in Admins \ {a} : admin'[b] = admin[b]
        BY <1>2, <1>x DEF OpenMap
    <2> QED
        BY <2>1, <2>3, <2>5, <2>6, <2>7, OneProcess
  <1>3. ASSUME LoadFails(a) PROVE Inv'
    <2>1. ASSUME \E n \in admin[a].new \cap Names : pins[n] # 0, NEW i \in Ifaces, Running(i)'
          PROVE  FALSE
      <3>1. PICK n \in admin[a].new \cap Names : pins[n] # 0
          BY <2>1
      <3>2. Running(i) /\ i \notin stranded'
          BY <1>3, <2>1 DEF LoadFails, Running
      <3>3. ~admin[a].stale /\ attached[i].maps[n] # admin[a].id
          BY <1>3, <3>1, <3>2 DEF LoadFails
      <3>4. pins[n] = admin[a].id
          BY <1>3, <1>z, <3>1, <3>3 DEF LoadFails, Sane, LoadPhases
      <3>5. pins[n] = attached[i].maps[n]
          BY <3>1, <3>2 DEF Inv, PinsReachProgram
      <3> QED
          BY <3>3, <3>4, <3>5
    <2>2. admin'[a] = Off
        BY <1>3, <1>x DEF LoadFails, Removal
    <2>3. Sane(admin[a])'
        BY <2>2, OffSane DEF Sane, LoadPhases
    <2>4. Off.iface \in {admin[a].iface, "none"} /\ Off.pc = "off"
        BY OffSane
    <2> QED
        BY <1>3, <2>1, <2>3, <2>4, PinsRemoved DEF LoadFails
  <1>4. ASSUME Loaded(a) \/ WriteConfig(a) \/ UnlinkProg(a) \/ PinProg(a) PROVE Inv'
    <2>1. PICK p \in LoadPhases \ {"load"} : admin' = [admin EXCEPT ![a].pc = p]
        BY <1>4 DEF Loaded, WriteConfig, UnlinkProg, PinProg, LoadPhases
    <2> DEFINE rec == [admin[a] EXCEPT !.pc = p]
    <2>2. admin'[a] = rec /\ \A b \in Admins \ {a} : admin'[b] = admin[b]
        BY <2>1, <1>x
    <2>3. /\ rec.pc = p /\ rec.iface = admin[a].iface /\ rec.id = admin[a].id
          /\ rec.todo = admin[a].todo /\ rec.maps = admin[a].maps
          /\ rec.new = admin[a].new /\ rec.stale = admin[a].stale
        BY <1>z DEF AdminType
    <2>4. admin[a].pc \in LoadPhases /\ admin[a].todo = {}
        BY <1>4, <1>z DEF Loaded, WriteConfig, UnlinkProg, PinProg, LoadPhases, Sane
    <2>5. \A n \in Names : pins'[n] = pins[n]
        BY <1>4, <1>y, <1>x DEF Loaded, WriteConfig, UnlinkProg, PinProg
    <2>6. UNCHANGED <<attached, stranded, tool>>
        BY <1>4 DEF Loaded, WriteConfig, UnlinkProg, PinProg
    <2> HIDE DEF rec
    <2>7. Sane(admin[a])'
        BY <1>z, <2>2, <2>3, <2>4, <2>5, <2>6 DEF Sane, Running, LoadPhases
    <2>8. admin[a].pc # "off" /\ admin'[a].iface = admin[a].iface
        BY <2>2, <2>3, <2>4 DEF LoadPhases
    <2> QED
        BY <2>2, <2>5, <2>6, <2>7, <2>8, OneProcess
  <1>5. ASSUME NEW mode \in {"native", "skb"}, Attach(a, mode) PROVE Inv'
    <2> DEFINE i == admin[a].iface
               rec == [prog |-> admin[a].id, mode |-> mode, maps |-> admin[a].maps]
    <2>1. i \in Ifaces
        BY <1>5 DEF Attach, Inv, Types, Placed
    <2>2. attached' = [attached EXCEPT ![i] = rec] /\ rec.maps = admin[a].maps
        BY <1>5 DEF Attach
    <2>3. attached'[i] = rec /\ \A j \in Ifaces \ {i} : attached'[j] = attached[j]
        BY <2>1, <2>2 DEF Inv, Types
    <2>4. /\ i \in stranded' <=> admin[a].stale
          /\ \A j \in Ifaces \ {i} : j \in stranded' <=> j \in stranded
        BY <1>5 DEF Attach
    <2>5. admin'[a] = Off /\ \A b \in Admins \ {a} : admin'[b] = admin[b]
        BY <1>5, <1>x DEF Attach
    <2>6. ASSUME NEW b \in Admins \ {a} PROVE admin[b].iface # i
        BY <1>5 DEF Attach, Inv, Exclusive
    <2>7. \A n \in Names : admin[a].maps[n] # 0 /\ (~admin[a].stale => admin[a].maps[n] = pins[n])
        BY <1>5, <1>z DEF Attach, Sane, LoadPhases
    <2>8. pins' = pins /\ tool' = tool
        BY <1>5 DEF Attach
    <2> HIDE DEF rec, i
    <2>9. Exclusive'
      <3>1. \A b \in Admins : admin'[b].pc # "off" => b # a /\ admin'[b].iface \in Ifaces
          BY <2>5, OffSane DEF Types, Placed
      <3> QED
          BY <2>5, <3>1, OffSane, LoaderAssumption DEF Inv, Exclusive
    <2>10. AdminsSane'
      <3>1. Sane(admin[a])'
          BY <2>5, OffSane DEF Sane, LoadPhases
      <3>2. ASSUME NEW b \in Admins \ {a} PROVE Sane(admin[b])'
        <4>1. Sane(admin[b]) /\ admin'[b] = admin[b]
            BY <2>5 DEF Inv, AdminsSane
        <4>2. admin[b].pc # "off" => admin[b].iface \in Ifaces \ {i}
            BY <2>6 DEF Inv, Types, Placed
        <4>3. admin[b].pc # "off" => /\ attached'[admin[b].iface] = attached[admin[b].iface]
                                     /\ ~Running(admin[b].iface) => ~Running(admin[b].iface)'
            BY <2>3, <2>4, <4>1, <4>2 DEF Running
        <4> QED
            BY <2>8, <4>1, <4>3 DEF Sane
      <3> QED
          BY <3>1, <3>2 DEF AdminsSane
    <2>11. ProgramsWhole'
        BY <2>2, <2>3, <2>7 DEF Inv, ProgramsWhole
    <2>12. PinsReachProgram'
        BY <2>2, <2>3, <2>4, <2>7, <2>8 DEF Inv, PinsReachProgram, Running
    <2>13. ToolConsistent'
        BY <2>8 DEF Inv, ToolConsistent
    <2> QED
        BY <2>9, <2>10, <2>11, <2>12, <2>13 DEF Inv
  <1>6. ASSUME Fails(a) PROVE Inv'
    <2>1. admin'[a] = Off /\ \A b \in Admins \ {a} : admin'[b] = admin[b]
        BY <1>6, <1>x DEF Fails
    <2>2. Sane(admin[a])'
        BY <2>1, OffSane DEF Sane, LoadPhases
    <2> QED
        BY <1>6, <2>1, <2>2, OffSane, OneProcess DEF Fails, Undone
  <1> QED
      BY <1>1, <1>2, <1>3, <1>4, <1>5, <1>6 DEF Load

LEMMA UnloadStep == ASSUME Inv, Types', NEW a \in Admins, Unload(a) \/ Kill(a) PROVE Inv'
  <1>z. admin[a] \in AdminType /\ Sane(admin[a])
      BY DEF Inv, Types, AdminsSane
  <1>x. admin \in [Admins -> AdminType]
      BY DEF Inv, Types
  <1>1. ASSUME NEW i \in Ifaces, StartUnload(a, i) PROVE Inv'
    <2> DEFINE rec == [Off EXCEPT !.pc = "detach", !.iface = i]
    <2>1. admin'[a] = rec
        BY <1>1, <1>x DEF StartUnload
    <2>2. rec.iface = i /\ rec.pc = "detach" /\ rec.stale = FALSE
        BY DEF Off
    <2> HIDE DEF rec
    <2>3. Sane(admin[a])'
        BY <2>1, <2>2 DEF Sane, LoadPhases
    <2> QED
        BY <1>1, <2>1, <2>2, <2>3, OneProcess DEF StartUnload, Free
  <1>2. ASSUME Detach(a) PROVE Inv'
    <2> DEFINE i == admin[a].iface
    <2>1. i \in Ifaces
        BY <1>2 DEF Detach, Inv, Types, Placed
    <2>2. /\ attached'[i] \in {attached[i], None}
          /\ \A j \in Ifaces \ {i} : attached'[j] = attached[j]
        BY <1>2, <2>1 DEF Detach, Inv, Types
    <2>3. /\ admin'[a].pc = "unlink" /\ admin'[a].iface = i /\ admin'[a].stale = admin[a].stale
          /\ ~admin'[a].missed => attached'[i] = None
          /\ \A b \in Admins \ {a} : admin'[b] = admin[b]
        BY <1>2, <1>x, <1>z DEF Detach, AdminType
    <2>4. ASSUME NEW b \in Admins \ {a} PROVE admin[b].iface # i
        BY <1>2 DEF Detach, Inv, Exclusive
    <2>5. UNCHANGED <<pins, tool, stranded>>
        BY <1>2 DEF Detach
    <2>6. admin[a].pc = "detach"
        BY <1>2 DEF Detach
    <2>7. \A j \in Ifaces : ~Running(j) => ~Running(j)'
        BY <2>2, <2>5 DEF Running
    <2> HIDE DEF i
    <2>8. Exclusive'
        BY <2>3, <2>4, <2>6 DEF Inv, Exclusive, i
    <2>9. AdminsSane'
      <3>1. Sane(admin[a])'
        <4>1. admin[a].stale => ~Running(i)
            BY <1>z, <2>6 DEF Sane, i
        <4>2. admin'[a].stale => ~Running(admin[a].iface)'
            BY <2>1, <2>3, <2>7, <4>1 DEF Running
        <4> QED
            BY <2>3, <4>2 DEF Sane, LoadPhases
      <3>2. ASSUME NEW b \in Admins \ {a} PROVE Sane(admin[b])'
        <4>1. Sane(admin[b]) /\ admin'[b] = admin[b]
            BY <2>3 DEF Inv, AdminsSane
        <4>2. admin[b].pc # "off" => admin[b].iface \in Ifaces \ {i}
            BY <2>4 DEF Inv, Types, Placed
        <4>3. admin[b].pc # "off" => /\ attached'[admin[b].iface] = attached[admin[b].iface]
                                     /\ ~Running(admin[b].iface) => ~Running(admin[b].iface)'
            BY <2>2, <2>5, <4>1, <4>2 DEF Running
        <4> QED
            BY <2>5, <4>1, <4>3 DEF Sane
      <3> QED
          BY <3>1, <3>2 DEF AdminsSane
    <2>10. ProgramsWhole' /\ PinsReachProgram'
        BY <2>2, <2>5 DEF Inv, ProgramsWhole, PinsReachProgram, Running
    <2>11. ToolConsistent'
        BY <2>5 DEF Inv, ToolConsistent
    <2> QED
        BY <2>8, <2>9, <2>10, <2>11 DEF Inv
  <1>3. ASSUME NEW n \in pinned, Unlink(a, n) PROVE Inv'
    <2> DEFINE rec == [admin[a] EXCEPT !.todo = @ \ {n}]
    <2>1. admin'[a] = rec
        BY <1>3, <1>x DEF Unlink, Removal
    <2>2. /\ rec.pc = "unlink" /\ rec.iface = admin[a].iface
          /\ rec.stale = admin[a].stale /\ rec.missed = admin[a].missed
        BY <1>3, <1>z DEF Unlink, AdminType
    <2>3. UNCHANGED attached /\ stranded \subseteq stranded' /\ admin[a].pc = "unlink"
        BY <1>3 DEF Unlink
    <2>4. ASSUME \E m \in {n} \cap Names : pins[m] # 0, NEW j \in Ifaces, Running(j)'
          PROVE  FALSE
      <3>1. n \in Names /\ attached[j] # None /\ j \notin stranded'
          BY <2>3, <2>4 DEF Running
      <3>2. j = admin[a].iface /\ ~admin[a].missed
          BY <1>3, <3>1 DEF Unlink
      <3> QED
          BY <1>z, <2>3, <3>1, <3>2 DEF Sane
    <2> HIDE DEF rec
    <2>5. Sane(admin[a])'
      <3>1. admin'[a].stale => ~Running(admin[a].iface)'
          BY <1>z, <2>1, <2>2, <2>3 DEF Sane, Running
      <3> QED
          BY <1>z, <2>1, <2>2, <2>3, <3>1 DEF Sane, LoadPhases
    <2>6. Removal(a, rec, {n})
        BY <1>3 DEF Unlink, rec
    <2> QED
        BY <2>1, <2>2, <2>3, <2>4, <2>5, <2>6, PinsRemoved
  <1>4. ASSUME Unloaded(a) \/ Kill(a) PROVE Inv'
    <2>1. admin'[a] = Off /\ \A b \in Admins \ {a} : admin'[b] = admin[b]
        BY <1>4, <1>x DEF Unloaded, Kill
    <2>2. Sane(admin[a])'
        BY <2>1, OffSane DEF Sane, LoadPhases
    <2> QED
        BY <1>4, <2>1, <2>2, OffSane, OneProcess DEF Unloaded, Kill
  <1> QED
      BY <1>1, <1>2, <1>3, <1>4 DEF Unload

LEMMA ToolStep == ASSUME Inv, Types', Tool PROVE Inv'
  <1>1. UNCHANGED <<pins, attached, admin, stranded>>
      BY DEF Tool, StartTool, Opened, ProgInfoFails, Close, OpenPinned, Write, Erase
  <1>2. Exclusive' /\ AdminsSane'
      BY <1>1 DEF Inv, Exclusive, AdminsSane, Sane, Running
  <1>3. ProgramsWhole' /\ PinsReachProgram'
      BY <1>1 DEF Inv, ProgramsWhole, PinsReachProgram, Running
  <1>4. tool \in ToolType /\ Closed.pc = "off"
      BY DEF Inv, Types, Closed
  <1>5. ToolConsistent'
    <2>1. CASE StartTool \/ Opened \/ ProgInfoFails \/ Close
        BY <1>1, <1>4, <2>1 DEF Inv, ToolConsistent, StartTool, Opened, ProgInfoFails, Close,
                                Closed, ToolType
    <2>2. ASSUME NEW n \in Names, OpenPinned(n) PROVE ToolConsistent'
      <3>1. CASE NotFound(n)
          BY <1>1, <1>4, <2>2, <3>1 DEF OpenPinned, ToolConsistent
      <3>2. CASE ~NotFound(n)
        <4>1. /\ tool'.pc = "open" /\ tool'.todo = tool.todo \ {n}
              /\ tool'.fds = [tool.fds EXCEPT ![n] = pins[n]] /\ tool'.sound = tool.sound
            BY <1>4, <2>2, <3>2 DEF OpenPinned, ToolType
        <4>2. tool.fds \in [Names -> Nat] /\ pins[n] # 0 /\ tool.pc = "open"
            BY <1>4, <2>2, <3>2 DEF ToolType, NotFound, OpenPinned
        <4> QED
            BY <1>1, <4>1, <4>2 DEF Inv, ToolConsistent
      <3> QED
          BY <3>1, <3>2
    <2>3. ASSUME NEW n \in Edited, Write(n) \/ Erase(n) PROVE ToolConsistent'
        BY <1>1, <2>3 DEF Inv, ToolConsistent, Write, Erase
    <2> QED
        BY <2>1, <2>2, <2>3 DEF Tool
  <1> QED
      BY <1>2, <1>3, <1>5 DEF Inv

LEMMA InvStep == Inv /\ [Next]_vars => Inv'
  <1> SUFFICES ASSUME Inv, [Next]_vars PROVE Inv'
      OBVIOUS
  <1>1. Types'
      BY TypeStep DEF Inv
  <1>2. CASE UNCHANGED vars
    <2>1. UNCHANGED <<pins, attached, admin, tool, stranded>>
        BY <1>2 DEF vars
    <2>2. Exclusive' /\ AdminsSane'
        BY <2>1 DEF Inv, Exclusive, AdminsSane, Sane, Running
    <2> QED
        BY <1>1, <2>1, <2>2 DEF Inv, ProgramsWhole, PinsReachProgram, Running, ToolConsistent
  <1>3. CASE Next
      BY <1>1, <1>3, LoadStep, UnloadStep, ToolStep DEF Next
  <1> QED
      BY <1>2, <1>3

LEMMA Invariance == Spec => []Inv
  <1> QED
      BY InvInit, InvStep, PTL DEF Spec

-----------------------------------------------------------------------------

(* Every process stays within its types, and a tool never works with a map   *)
(* it has not opened (Firewall.__init__, _open_pinned).                      *)
THEOREM LoaderTypeCorrect == Spec => []TypeOK
  <1>1. Inv => TypeOK
      BY DEF Inv, Types, Placed, TypeOK, ToolConsistent
  <1> QED
      BY <1>1, Invariance, PTL

(* What is pinned is what runs, whatever loads and unloads of other          *)
(* interfaces do, succeed, fail or die.                                      *)
THEOREM PinsReach == Spec => []PinsReachProgram
  <1>1. Inv => PinsReachProgram
      BY DEF Inv
  <1> QED
      BY <1>1, Invariance, PTL

(* A tool that lost no pin works on the maps of every program that runs.     *)
THEOREM ToolsReach == Spec => []ToolsReachProgram
  <1>1. Inv => ToolsReachProgram
    <2> SUFFICES ASSUME Inv, tool.pc = "ready", tool.sound, NEW i \in Ifaces, Running(i)
                 PROVE  tool.fds = attached[i].maps
        BY DEF ToolsReachProgram
    <2>1. \A n \in Names : tool.fds[n] = attached[i].maps[n]
        BY DEF Inv, ToolConsistent, PinsReachProgram
    <2>2. tool.fds \in [Names -> Nat] /\ attached[i].maps \in [Names -> Nat]
        BY DEF Inv, Types, ToolType, ProgType
    <2> QED
        BY <2>1, <2>2
  <1> QED
      BY <1>1, Invariance, PTL

(* A reload, complete, failed or killed, keeps what the operator wrote to    *)
(* the maps of the program that runs.                                        *)
THEOREM EntriesSurviveReload == Spec => ReloadKeepsEntries
  <1>1. Inv /\ [Next]_vars => [KeptStep]_vars
    <2> SUFFICES ASSUME Inv, Next, NEW i \in Ifaces, NEW n \in Names \ {"config"},
                        Running(i), <<n, attached[i].maps[n]>> \in written,
                        ~(tool.pc = "ready" /\ Erase(n)),
                        ~\E a \in Admins : admin[a].iface = i /\ Detach(a)
                 PROVE  <<n, attached'[i].maps[n]>> \in written'
        BY DEF KeptStep
    <2>1. CASE Tool
      <3>1. ASSUME NEW m \in Edited, Erase(m) PROVE <<n, attached'[i].maps[n]>> \in written'
        <4>1. m # n /\ attached' = attached /\ written' = written \ {<<m, tool.fds[m]>>}
            BY <3>1 DEF Erase
        <4> QED
            BY <4>1
      <3>2. ASSUME NEW m \in Edited, Write(m) PROVE <<n, attached'[i].maps[n]>> \in written'
          BY <3>2 DEF Write
      <3>3. CASE UNCHANGED <<attached, written>>
          BY <3>3
      <3> QED
        <4>1. \/ UNCHANGED <<attached, written>>
              \/ \E m \in Edited : Write(m) \/ Erase(m)
            BY <2>1 DEF Tool, StartTool, Opened, ProgInfoFails, Close, OpenPinned
        <4> QED
            BY <4>1, <3>1, <3>2, <3>3
    <2>2. ASSUME NEW a \in Admins, NEW mode \in {"native", "skb"}, Attach(a, mode)
          PROVE  <<n, attached'[i].maps[n]>> \in written'
      <3> DEFINE rec == [prog |-> admin[a].id, mode |-> mode, maps |-> admin[a].maps]
      <3>1. attached' = [attached EXCEPT ![admin[a].iface] = rec] /\ written' = written
          BY <2>2 DEF Attach
      <3>2. rec.maps = admin[a].maps
          OBVIOUS
      <3> HIDE DEF rec
      <3>3. CASE admin[a].iface = i
        <4>1. Sane(admin[a]) /\ admin[a].pc = "attach"
            BY <2>2 DEF Inv, AdminsSane, Attach
        <4>2. admin[a].maps[n] = pins[n]
            BY <3>3, <4>1 DEF Sane, LoadPhases
        <4>3. pins[n] = attached[i].maps[n]
            BY DEF Inv, PinsReachProgram
        <4>4. attached'[i] = rec
            BY <3>1, <3>3 DEF Inv, Types
        <4> QED
            BY <3>1, <3>2, <4>2, <4>3, <4>4
      <3>4. CASE admin[a].iface # i
          BY <3>1, <3>4 DEF Inv, Types
      <3> QED
          BY <3>3, <3>4
    <2>3. ASSUME NEW a \in Admins, Detach(a) PROVE <<n, attached'[i].maps[n]>> \in written'
        BY <2>3 DEF Detach, Inv, Types
    <2>4. ASSUME NEW a \in Admins, WriteConfig(a) PROVE <<n, attached'[i].maps[n]>> \in written'
        BY <2>4 DEF WriteConfig
    <2>5. ASSUME UNCHANGED <<attached, written>> PROVE <<n, attached'[i].maps[n]>> \in written'
        BY <2>5
    <2>6. ASSUME NEW a \in Admins, Load(a) PROVE <<n, attached'[i].maps[n]>> \in written'
        BY <2>2, <2>4, <2>5, <2>6
           DEF Load, StartLoad, OpenMap, LoadFails, Loaded, UnlinkProg, PinProg, Fails
    <2>7. ASSUME NEW a \in Admins, Unload(a) \/ Kill(a)
          PROVE  <<n, attached'[i].maps[n]>> \in written'
        BY <2>3, <2>5, <2>7 DEF Unload, StartUnload, Unlink, Unloaded, Kill
    <2> QED
        BY <2>1, <2>6, <2>7 DEF Next
  <1> QED
      BY <1>1, Invariance, PTL DEF Spec, ReloadKeepsEntries

-----------------------------------------------------------------------------
(* The program's own pin. *)

(* Loads are numbered as they begin; a process under way has a number that   *)
(* no other has and no interface runs yet.                                   *)
Numbered ==
    /\ \A a \in Admins :
          IF admin[a].pc \in LoadPhases
          THEN admin[a].id \in 1 .. loads /\ \A i \in Ifaces : attached[i].prog # admin[a].id
          ELSE admin[a].id = 0
    /\ \A a, b \in Admins :
          admin[a].pc \in LoadPhases /\ admin[b].id = admin[a].id => a = b
    /\ \A i \in Ifaces : attached[i].prog <= loads

(* Once a load has unlinked the pin, what it is about to replace is not      *)
(* pinned again: only its own process could do so, and that has ended.       *)
Superseded ==
    \A a \in Admins : admin[a].pc \in {"pin", "attach"} =>
        pins[PROG] = 0 \/ attached[admin[a].iface].prog # pins[PROG]

(* Somebody is going to attach the pinned program, or to unlink it. *)
Attends(a) ==
    \/ admin[a].pc = "attach" /\ admin[a].id = pins[PROG]
    \/ admin[a].pc = "unlink" /\ PROG \in admin[a].todo

Accountable ==
    \/ pins[PROG] \in abandoned \cup {0}
    \/ \E i \in Ifaces : attached[i].prog = pins[PROG]
    \/ \E a \in Admins : Attends(a)

Labelled == Numbered /\ Superseded /\ Accountable

(* What a step leaves of another process. *)
Same(b) == /\ admin'[b].pc = admin[b].pc /\ admin'[b].iface = admin[b].iface
           /\ admin'[b].id = admin[b].id /\ admin'[b].todo = admin[b].todo

LEMMA OthersAreSame ==
    ASSUME Types, NEW a \in Admins, Load(a) \/ Unload(a) \/ Kill(a), NEW b \in Admins \ {a}
    PROVE  Same(b)
  <1>1. admin[b] \in AdminType /\ admin \in [Admins -> AdminType]
      BY DEF Types
  <1>2. ASSUME admin'[b] = admin[b] PROVE Same(b)
      BY <1>2 DEF Same
  <1>3. ASSUME NEW next, NEW gone, Removal(a, next, gone) PROVE Same(b)
    <2> DEFINE lost == \E n \in gone \cap Names : pins[n] # 0
    <2>1. admin'[b] = [admin[b] EXCEPT !.stale = @ \/ (lost /\ admin[b].pc # "off")]
        BY <1>3 DEF Removal
    <2> HIDE DEF lost
    <2> QED
        BY <1>1, <2>1 DEF Same, AdminType
  <1>4. CASE Load(a)
    <2>1. CASE LoadFails(a)
        BY <1>3, <2>1 DEF LoadFails
    <2>2. CASE ~LoadFails(a)
      <3>1. admin'[b] = admin[b]
          BY <1>1, <1>4, <2>2
             DEF Load, StartLoad, OpenMap, Loaded, WriteConfig, UnlinkProg, PinProg, Attach, Fails
      <3> QED
          BY <1>2, <3>1
    <2> QED
        BY <2>1, <2>2
  <1>5. CASE Unload(a)
    <2>1. ASSUME NEW n \in pinned, Unlink(a, n) PROVE Same(b)
        BY <1>3, <2>1 DEF Unlink
    <2>2. ASSUME \A n \in pinned : ~Unlink(a, n) PROVE Same(b)
      <3>1. admin'[b] = admin[b]
          BY <1>1, <1>5, <2>2 DEF Unload, StartUnload, Detach, Unloaded
      <3> QED
          BY <1>2, <3>1
    <2> QED
        BY <2>1, <2>2
  <1>6. CASE Kill(a)
    <2>1. admin'[b] = admin[b]
        BY <1>1, <1>6 DEF Kill
    <2> QED
        BY <1>2, <2>1
  <1> QED
      BY <1>4, <1>5, <1>6

(* A load gets on: it keeps its number, and the pin stays, vanishes or       *)
(* becomes its own.                                                          *)
LEMMA LoadAdvances ==
    ASSUME Inv, Labelled, NEW a \in Admins, \A b \in Admins \ {a} : Same(b),
           admin[a].pc \in LoadPhases \ {"attach"}, admin'[a].pc \in LoadPhases,
           admin'[a].id = admin[a].id, admin'[a].iface = admin[a].iface,
           UNCHANGED <<attached, loads, abandoned>>,
           \/ /\ pins'[PROG] = pins[PROG]
              /\ admin'[a].pc \in {"pin", "attach"} => admin[a].pc = "pin"
           \/ pins'[PROG] = 0
           \/ pins'[PROG] = admin[a].id /\ admin'[a].pc = "attach"
    PROVE  Labelled'
  <1>1. \A b \in Admins : admin'[b].id = admin[b].id /\ admin'[b].iface = admin[b].iface
                          /\ (admin'[b].pc \in LoadPhases <=> admin[b].pc \in LoadPhases)
      BY DEF Same
  <1>2. Numbered'
      BY <1>1 DEF Labelled, Numbered
  <1>3. Superseded'
    <2> SUFFICES ASSUME NEW b \in Admins, admin'[b].pc \in {"pin", "attach"}, pins'[PROG] # 0
                 PROVE  attached[admin[b].iface].prog # pins'[PROG]
        BY <1>1 DEF Superseded
    <2>1. CASE pins'[PROG] = admin[a].id
      <3>1. admin[b].pc # "off"
          BY <1>1 DEF LoadPhases
      <3>2. admin[b].iface \in Ifaces
          BY <3>1 DEF Inv, Types, Placed
      <3> QED
          BY <2>1, <3>2 DEF Labelled, Numbered
    <2>2. CASE pins'[PROG] = pins[PROG] /\ pins'[PROG] # admin[a].id
      <3>1. admin[b].pc \in {"pin", "attach"}
          BY <2>2 DEF Same
      <3> QED
          BY <2>2, <3>1 DEF Labelled, Superseded
    <2> QED
        BY <2>1, <2>2
  <1>4. Accountable'
    <2>1. CASE pins'[PROG] = 0
        BY <2>1 DEF Accountable
    <2>2. CASE pins'[PROG] = admin[a].id /\ admin'[a].pc = "attach"
        BY <1>1, <2>2 DEF Accountable, Attends
    <2>3. CASE pins'[PROG] = pins[PROG]
      <3>1. ~Attends(a)
          BY DEF Attends, LoadPhases
      <3>2. \A b \in Admins : Attends(b) => Attends(b)'
          BY <2>3, <3>1 DEF Attends, Same
      <3> QED
          BY <2>3, <3>2 DEF Labelled, Accountable
    <2> QED
        BY <2>1, <2>2, <2>3
  <1> QED
      BY <1>2, <1>3, <1>4 DEF Labelled

(* A process ends, and what it leaves pinned is counted as given up. *)
LEMMA ProcessEnds ==
    ASSUME Inv, Labelled, NEW a \in Admins, \A b \in Admins \ {a} : Same(b),
           admin'[a] = Off, UNCHANGED <<attached, loads>>, pins'[PROG] = pins[PROG],
           abandoned \subseteq abandoned', Attends(a) => pins[PROG] \in abandoned'
    PROVE  Labelled'
  <1>1. admin'[a].pc = "off" /\ admin'[a].id = 0
      BY DEF Off
  <1>2. Numbered'
      BY <1>1 DEF Labelled, Numbered, Same, LoadPhases
  <1>3. Superseded'
      BY <1>1 DEF Labelled, Superseded, Same
  <1>4. Accountable'
    <2>1. \A b \in Admins \ {a} : Attends(b) => Attends(b)'
        BY DEF Attends, Same
    <2> QED
        BY <2>1 DEF Labelled, Accountable
  <1> QED
      BY <1>2, <1>3, <1>4 DEF Labelled

LEMMA LoadKeepsLabels ==
    ASSUME Inv, Labelled, NEW a \in Admins, Load(a)
    PROVE  Labelled'
  <1>a. /\ pins \in [pinned -> Nat] /\ admin \in [Admins -> AdminType]
        /\ attached \in [Ifaces -> ProgType] /\ loads \in Nat /\ admin[a] \in AdminType
      BY DEF Inv, Types
  <1>b. PROG \in pinned /\ PROG \notin Names /\ Names \subseteq pinned
      BY LoaderAssumption DEF pinned
  <1>c. \A b \in Admins \ {a} : Same(b)
      BY OthersAreSame DEF Inv
  <1>1. ASSUME NEW i \in Ifaces, StartLoad(a, i) PROVE Labelled'
    <2> DEFINE rec == [Off EXCEPT !.pc = "load", !.iface = i, !.id = loads + 1, !.todo = Names]
    <2>1. admin'[a] = rec /\ UNCHANGED <<pins, attached, abandoned>> /\ loads' = loads + 1
          /\ admin[a].pc = "off"
        BY <1>1, <1>a DEF StartLoad, Free
    <2>2. rec.pc = "load" /\ rec.id = loads + 1
        BY DEF Off
    <2> HIDE DEF rec
    <2>3. Numbered'
      <3>1. \A i1 \in Ifaces : attached[i1].prog \in Nat /\ attached[i1].prog <= loads
          BY <1>a DEF Labelled, Numbered, ProgType
      <3>2. \A b \in Admins \ {a} : /\ admin'[b].id = admin[b].id
                                    /\ admin'[b].pc = admin[b].pc
                                    /\ admin[b].id \in 0 .. loads
          BY <1>a, <1>c DEF Labelled, Numbered, Same
      <3>3. ASSUME NEW b \in Admins
            PROVE  IF admin'[b].pc \in LoadPhases
                   THEN /\ admin'[b].id \in 1 .. loads'
                        /\ \A i1 \in Ifaces : attached'[i1].prog # admin'[b].id
                   ELSE admin'[b].id = 0
        <4>1. CASE b = a
          <5>1. admin'[b].pc \in LoadPhases /\ admin'[b].id = loads + 1
              BY <2>1, <2>2, <4>1 DEF LoadPhases
          <5> QED
              BY <1>a, <2>1, <3>1, <5>1
        <4>2. CASE b # a
          <5>1. admin'[b].id = admin[b].id /\ admin'[b].pc = admin[b].pc
              BY <3>2, <4>2
          <5> QED
              BY <1>a, <2>1, <5>1 DEF Labelled, Numbered
        <4> QED
            BY <4>1, <4>2
      <3>4. ASSUME NEW b \in Admins, NEW c \in Admins, admin'[b].pc \in LoadPhases,
                   admin'[c].id = admin'[b].id
            PROVE  b = c
        <4>1. admin'[a].id = loads + 1
            BY <2>1, <2>2
        <4> QED
            BY <1>a, <3>2, <3>4, <4>1 DEF Labelled, Numbered
      <3>5. \A i1 \in Ifaces : attached'[i1].prog <= loads'
          BY <1>a, <2>1, <3>1
      <3> QED
          BY <3>3, <3>4, <3>5 DEF Numbered
    <2>4. Superseded'
        BY <1>c, <2>1, <2>2 DEF Labelled, Superseded, Same
    <2>5. Accountable'
      <3>1. \A b \in Admins : Attends(b) => Attends(b)'
          BY <1>c, <2>1 DEF Attends, Same
      <3> QED
          BY <2>1, <3>1 DEF Labelled, Accountable
    <2> QED
        BY <2>3, <2>4, <2>5 DEF Labelled
  <1>2. ASSUME NEW n \in Names, OpenMap(a, n) PROVE Labelled'
    <2>1. /\ admin[a].pc = "load" /\ admin'[a].pc = "load"
          /\ admin'[a].id = admin[a].id /\ admin'[a].iface = admin[a].iface
        BY <1>2, <1>a DEF OpenMap, AdminType
    <2>2. pins'[PROG] = pins[PROG] /\ UNCHANGED <<attached, loads, abandoned>>
        BY <1>2, <1>a, <1>b DEF OpenMap
    <2> QED
        BY <1>c, <2>1, <2>2, LoadAdvances DEF LoadPhases
  <1>3. ASSUME LoadFails(a) PROVE Labelled'
    <2>1. admin'[a] = Off /\ UNCHANGED <<attached, loads>> /\ abandoned \subseteq abandoned'
        BY <1>3 DEF LoadFails, Removal
    <2>2. pins'[PROG] = pins[PROG]
      <3>1. PROG \notin admin[a].new
          BY <1>a, <1>b DEF AdminType
      <3> QED
          BY <1>3, <1>b, <3>1 DEF LoadFails, Removal
    <2>3. ~Attends(a)
        BY <1>3 DEF LoadFails, Attends
    <2> QED
        BY <1>c, <2>1, <2>2, <2>3, ProcessEnds
  <1>4. ASSUME Loaded(a) \/ WriteConfig(a) \/ UnlinkProg(a) \/ PinProg(a) PROVE Labelled'
    <2>1. PICK p \in LoadPhases : admin' = [admin EXCEPT ![a].pc = p]
        BY <1>4 DEF Loaded, WriteConfig, UnlinkProg, PinProg, LoadPhases
    <2>2. /\ admin'[a].pc = p /\ admin'[a].id = admin[a].id
          /\ admin'[a].iface = admin[a].iface
        BY <1>a, <2>1 DEF AdminType
    <2>3. UNCHANGED <<attached, loads, abandoned>>
        BY <1>4 DEF Loaded, WriteConfig, UnlinkProg, PinProg
    <2>4. CASE Loaded(a) \/ WriteConfig(a)
      <3>1. /\ admin[a].pc \in LoadPhases \ {"attach"} /\ pins' = pins
            /\ admin'[a].pc \notin {"pin", "attach"}
          BY <1>a, <2>4 DEF Loaded, WriteConfig, LoadPhases, AdminType
      <3> QED
          BY <1>c, <2>2, <2>3, <3>1, LoadAdvances
    <2>5. CASE UnlinkProg(a)
      <3>1. admin[a].pc \in LoadPhases \ {"attach"} /\ pins'[PROG] = 0
          BY <1>a, <1>b, <2>5 DEF UnlinkProg, LoadPhases, Vacated
      <3> QED
          BY <1>c, <2>2, <2>3, <3>1, LoadAdvances
    <2>6. CASE PinProg(a)
      <3>1. /\ admin[a].pc = "pin" /\ admin'[a].pc = "attach"
            /\ pins'[PROG] \in {pins[PROG], admin[a].id}
          BY <1>a, <1>b, <2>6 DEF PinProg, AdminType
      <3> QED
          BY <1>c, <2>2, <2>3, <3>1, LoadAdvances DEF LoadPhases
    <2> QED
        BY <1>4, <2>4, <2>5, <2>6
  <1>5. ASSUME NEW mode \in {"native", "skb"}, Attach(a, mode) PROVE Labelled'
    <2> DEFINE i == admin[a].iface
    <2>1. i \in Ifaces
        BY <1>5 DEF Attach, Inv, Types, Placed
    <2>2. /\ attached'[i].prog = admin[a].id
          /\ \A j \in Ifaces \ {i} : attached'[j] = attached[j]
          /\ admin'[a] = Off /\ UNCHANGED <<pins, loads, abandoned>>
          /\ admin[a].pc = "attach"
        BY <1>5, <1>a, <2>1 DEF Attach
    <2>3. \A b \in Admins \ {a} : admin[b].iface # i
        BY <2>2 DEF Inv, Exclusive
    <2> HIDE DEF i
    <2>4. admin'[a].pc = "off" /\ admin'[a].id = 0
        BY <2>2 DEF Off
    <2>5. admin[a].id \in 1 .. loads /\ \A b \in Admins \ {a} : admin[b].id # admin[a].id
        BY <2>2 DEF Labelled, Numbered, LoadPhases
    <2>6. Numbered'
      <3>1. ASSUME NEW b \in Admins
            PROVE  IF admin'[b].pc \in LoadPhases
                   THEN /\ admin'[b].id \in 1 .. loads
                        /\ \A j \in Ifaces : attached'[j].prog # admin'[b].id
                   ELSE admin'[b].id = 0
        <4>1. CASE b = a
            BY <2>4, <4>1 DEF LoadPhases
        <4>2. CASE b # a
          <5>1. \A j \in Ifaces : attached'[j].prog \in {attached[j].prog, admin[a].id}
              BY <2>2
          <5> QED
              BY <1>c, <2>5, <4>2, <5>1 DEF Labelled, Numbered, Same
        <4> QED
            BY <4>1, <4>2
      <3>2. ASSUME NEW b \in Admins, NEW c \in Admins, admin'[b].pc \in LoadPhases,
                   admin'[c].id = admin'[b].id
            PROVE  b = c
        <4>1. b # a
            BY <2>4, <3>2 DEF LoadPhases
        <4>2. admin'[b].id \in 1 .. loads
            BY <3>1, <3>2
        <4>3. c # a
            BY <2>4, <3>2, <4>2
        <4> QED
            BY <1>c, <3>2, <4>1, <4>3 DEF Labelled, Numbered, Same
      <3>3. \A j \in Ifaces : attached'[j].prog <= loads
          BY <1>a, <2>2, <2>5 DEF Labelled, Numbered
      <3> QED
          BY <2>2, <3>1, <3>2, <3>3 DEF Numbered
    <2>7. Superseded'
      <3> SUFFICES ASSUME NEW b \in Admins, admin'[b].pc \in {"pin", "attach"}, pins[PROG] # 0
                   PROVE  attached'[admin'[b].iface].prog # pins[PROG]
          BY <2>2 DEF Superseded
      <3>1. b # a
          BY <2>4
      <3>2. admin[b].pc \in {"pin", "attach"} /\ admin'[b].iface = admin[b].iface
          BY <1>c, <3>1 DEF Same
      <3>3. admin[b].iface \in Ifaces \ {i}
          BY <2>3, <3>1, <3>2 DEF Inv, Types, Placed
      <3> QED
          BY <2>2, <3>2, <3>3 DEF Labelled, Superseded
    <2>8. Accountable'
      <3>1. CASE Attends(a)
          BY <2>1, <2>2, <3>1 DEF Attends, Accountable
      <3>2. ASSUME NEW b \in Admins \ {a}, Attends(b) PROVE Attends(b)'
          BY <1>c, <2>2, <3>2 DEF Attends, Same
      <3>3. ASSUME NEW j \in Ifaces, attached[j].prog = pins[PROG], pins[PROG] # 0
            PROVE  attached'[j].prog = pins'[PROG]
        <4>1. j # i
            BY <2>2, <3>3 DEF Labelled, Superseded, i
        <4> QED
            BY <2>2, <3>3, <4>1
      <3> QED
          BY <2>2, <3>1, <3>2, <3>3 DEF Labelled, Accountable
    <2> QED
        BY <2>6, <2>7, <2>8 DEF Labelled
  <1>6. ASSUME Fails(a) PROVE Labelled'
    <2>1. /\ admin'[a] = Off /\ UNCHANGED <<attached, loads, pins>>
          /\ abandoned' = abandoned \cup {admin[a].id}
        BY <1>6, <1>a DEF Fails, Undone
    <2>2. Attends(a) => pins[PROG] = admin[a].id
        BY <1>6 DEF Fails, Attends
    <2> QED
        BY <1>c, <2>1, <2>2, ProcessEnds
  <1> QED
      BY <1>1, <1>2, <1>3, <1>4, <1>5, <1>6 DEF Load

LEMMA UnloadKeepsLabels ==
    ASSUME Inv, Labelled, NEW a \in Admins, Unload(a) \/ Kill(a)
    PROVE  Labelled'
  <1>a. /\ pins \in [pinned -> Nat] /\ admin \in [Admins -> AdminType]
        /\ attached \in [Ifaces -> ProgType] /\ loads \in Nat /\ admin[a] \in AdminType
      BY DEF Inv, Types
  <1>b. PROG \in pinned /\ PROG \notin Names /\ Names \subseteq pinned
      BY LoaderAssumption DEF pinned
  <1>c. \A b \in Admins \ {a} : Same(b)
      BY OthersAreSame DEF Inv
  <1>1. ASSUME NEW i \in Ifaces, StartUnload(a, i) PROVE Labelled'
    <2> DEFINE rec == [Off EXCEPT !.pc = "detach", !.iface = i]
    <2>1. /\ admin'[a] = rec /\ admin[a].pc = "off"
          /\ UNCHANGED <<pins, attached, loads, abandoned>>
        BY <1>1, <1>a DEF StartUnload, Free
    <2>2. rec.pc = "detach" /\ rec.id = 0
        BY DEF Off
    <2> HIDE DEF rec
    <2>3. Numbered'
        BY <1>c, <2>1, <2>2 DEF Labelled, Numbered, Same, LoadPhases
    <2>4. Superseded'
        BY <1>c, <2>1, <2>2 DEF Labelled, Superseded, Same
    <2>5. \A b \in Admins : Attends(b) => Attends(b)'
        BY <1>c, <2>1 DEF Attends, Same
    <2> QED
        BY <2>1, <2>3, <2>4, <2>5 DEF Labelled, Accountable
  <1>2. ASSUME Detach(a) PROVE Labelled'
    <2>1. /\ admin[a].pc = "detach" /\ admin'[a].pc = "unlink" /\ PROG \in admin'[a].todo
          /\ admin'[a].id = admin[a].id /\ UNCHANGED <<pins, loads, abandoned>>
        BY <1>2, <1>a, <1>b DEF Detach, AdminType
    <2>2. \A j \in Ifaces : attached'[j].prog \in {attached[j].prog, 0}
      <3>1. None.prog = 0
          BY DEF None
      <3> QED
          BY <1>2, <1>a, <3>1 DEF Detach
    <2>3. Numbered'
      <3>1. \A j \in Ifaces : attached'[j].prog <= loads
          BY <1>a, <2>2 DEF Labelled, Numbered
      <3>2. \A b \in Admins : /\ admin'[b].id = admin[b].id
                              /\ admin'[b].pc \in LoadPhases <=> admin[b].pc \in LoadPhases
          BY <1>c, <2>1 DEF Same, LoadPhases
      <3>3. \A b \in Admins : admin[b].pc \in LoadPhases => admin[b].id # 0
          BY <1>a DEF Labelled, Numbered
      <3> QED
          BY <2>1, <2>2, <3>1, <3>2, <3>3 DEF Labelled, Numbered
    <2>4. Superseded'
      <3> SUFFICES ASSUME NEW b \in Admins, admin'[b].pc \in {"pin", "attach"}, pins[PROG] # 0
                   PROVE  attached'[admin'[b].iface].prog # pins[PROG]
          BY <2>1 DEF Superseded
      <3>1. admin[b].pc \in {"pin", "attach"} /\ admin'[b].iface = admin[b].iface
          BY <1>c, <2>1 DEF Same
      <3>2. admin[b].iface \in Ifaces
          BY <3>1 DEF Inv, Types, Placed
      <3> QED
          BY <2>2, <3>1, <3>2 DEF Labelled, Superseded
    <2>5. Accountable'
        BY <2>1 DEF Accountable, Attends
    <2> QED
        BY <2>3, <2>4, <2>5 DEF Labelled
  <1>3. ASSUME NEW n \in pinned, Unlink(a, n) PROVE Labelled'
    <2>1. /\ admin[a].pc = "unlink" /\ admin'[a].pc = "unlink"
          /\ admin'[a].todo = admin[a].todo \ {n} /\ admin'[a].id = admin[a].id
          /\ UNCHANGED <<attached, loads, abandoned>>
          /\ pins'[PROG] = IF n = PROG THEN 0 ELSE pins[PROG]
        BY <1>3, <1>a, <1>b DEF Unlink, Removal, AdminType
    <2>2. Numbered'
        BY <1>c, <2>1 DEF Labelled, Numbered, Same, LoadPhases
    <2>3. Superseded'
        BY <1>c, <2>1 DEF Labelled, Superseded, Same
    <2>4. Accountable'
      <3>1. CASE n = PROG
          BY <2>1, <3>1 DEF Accountable
      <3>2. CASE n # PROG
        <4>1. \A b \in Admins : Attends(b) => Attends(b)'
            BY <1>c, <2>1, <3>2 DEF Attends, Same
        <4> QED
            BY <2>1, <3>2, <4>1 DEF Labelled, Accountable
      <3> QED
          BY <3>1, <3>2
    <2> QED
        BY <2>2, <2>3, <2>4 DEF Labelled
  <1>4. ASSUME Unloaded(a) PROVE Labelled'
    <2>1. /\ admin'[a] = Off /\ UNCHANGED <<attached, loads, pins, abandoned>>
          /\ ~Attends(a)
        BY <1>4, <1>a DEF Unloaded, Attends
    <2> QED
        BY <1>c, <2>1, ProcessEnds
  <1>5. ASSUME Kill(a) PROVE Labelled'
    <2>1. /\ admin'[a] = Off /\ UNCHANGED <<attached, loads, pins>>
          /\ abandoned' = abandoned \cup {IF admin[a].id = 0 THEN pins[PROG] ELSE admin[a].id}
        BY <1>5, <1>a DEF Kill
    <2>2. Attends(a) => pins[PROG] \in abandoned'
        BY <2>1 DEF Attends, Labelled, Numbered, LoadPhases
    <2> QED
        BY <1>c, <2>1, <2>2, ProcessEnds
  <1> QED
      BY <1>1, <1>2, <1>3, <1>4, <1>5 DEF Unload

(* What fwctl status reports is a program that runs, for any number of loads *)
(* and unloads at a time, each of which may fail or be killed: when none is  *)
(* under way, the pinned program is attached somewhere or was given up.      *)
THEOREM StatusIsOfARunningProgram == Spec => []PinnedProgramRuns
  <1>1. Init => Labelled
    <2> SUFFICES ASSUME Init PROVE Labelled
        OBVIOUS
    <2>1. Off.pc = "off" /\ Off.id = 0 /\ None.prog = 0 /\ PROG \in pinned
        BY DEF Off, None, pinned
    <2>2. /\ \A a \in Admins : admin[a].pc = "off" /\ admin[a].id = 0
          /\ \A i \in Ifaces : attached[i].prog = 0
          /\ loads = 0 /\ pins[PROG] = 0
        BY <2>1 DEF Init
    <2> QED
        BY <2>2 DEF Labelled, Numbered, Superseded, Accountable, LoadPhases
  <1>2. Inv /\ Labelled /\ [Next]_vars => Labelled'
    <2> SUFFICES ASSUME Inv, Labelled, [Next]_vars PROVE Labelled'
        OBVIOUS
    <2>1. ASSUME UNCHANGED <<pins, attached, loads, admin, abandoned>> PROVE Labelled'
        BY <2>1 DEF Labelled, Numbered, Superseded, Accountable, Attends
    <2>2. CASE Tool
      <3>1. UNCHANGED <<pins, attached, loads, admin, abandoned>>
          BY <2>2 DEF Tool, StartTool, Opened, ProgInfoFails, Close, OpenPinned, Write, Erase
      <3> QED
          BY <2>1, <3>1
    <2>3. CASE UNCHANGED vars
        BY <2>1, <2>3 DEF vars
    <2> QED
        BY <2>2, <2>3, LoadKeepsLabels, UnloadKeepsLabels DEF Next
  <1>3. Labelled => PinnedProgramRuns
      BY DEF Labelled, Accountable, Attends, PinnedProgramRuns
  <1> QED
      BY <1>1, <1>2, <1>3, Invariance, PTL DEF Spec
=============================================================================
