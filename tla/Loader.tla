------------------------------- MODULE Loader -------------------------------
(***************************************************************************)
(* src/loader.c (fwload) and the tools that open what it pins: class       *)
(* Firewall of control/firewall.py and _Pinned, BpfMap and BpfProg of      *)
(* control/bpfmap.py.                                                      *)
(*                                                                         *)
(* Maps and programs are kernel objects that live as long as a pin, a file *)
(* descriptor or an attached program holds them.  The id of a program is   *)
(* the number of its load; a map is its name and the load that created it. *)
(* One system call is one action, and a process may be killed between any  *)
(* two.  Where the code walks the map names in a fixed order, the model    *)
(* takes them in every order.                                              *)
(***************************************************************************)
EXTENDS Naturals

CONSTANTS Ifaces,     \* interfaces; all share one pin directory
          Native,     \* those whose driver has native XDP
          Names,      \* the maps of the object, "config" among them
          Edited,     \* those the tool writes to
          Admins,     \* fwload processes that may run at a time
          MaxLoads    \* bound: loads

PROG == "xdp_firewall"
pinned == Names \cup {PROG}
None == [prog |-> 0, mode |-> "none", maps |-> [n \in Names |-> 0]]

ASSUME LoaderAssumption ==
    /\ Native \subseteq Ifaces /\ "none" \notin Ifaces
    /\ "config" \in Names /\ PROG \notin Names /\ Edited \subseteq Names
    /\ MaxLoads \in Nat

VARIABLES pins,      \* name -> id of the object pinned under it; 0: no such file
          attached,  \* iface -> its program: id, mode, maps
          written,   \* maps in which something the operator wrote still is
          loads,     \* loads begun
          admin,     \* fwload processes
          tool,      \* a controller or fwctl
          stranded,  \* history: interfaces whose program lost its pins to a removal
          abandoned  \* history: programs that were killed or failed on the way

vars == <<pins, attached, written, loads, admin, tool, stranded, abandoned>>

Off == [pc |-> "off", iface |-> "none", id |-> 0, todo |-> {},
        maps |-> [n \in Names |-> 0], new |-> {}, stale |-> FALSE, missed |-> FALSE]

Closed == [pc |-> "off", todo |-> {}, fds |-> [n \in Names |-> 0], sound |-> FALSE]

Init ==
    /\ pins = [n \in pinned |-> 0]
    /\ attached = [i \in Ifaces |-> None]
    /\ written = {} /\ loads = 0
    /\ admin = [a \in Admins |-> Off] /\ tool = Closed
    /\ stranded = {} /\ abandoned = {}

(* Pins vanish: loads and tools under way may hold what cannot be reached    *)
(* any more (history).                                                       *)
Removal(a, next, gone) ==
    LET lost == \E n \in gone \cap Names : pins[n] # 0 IN
    /\ pins' = [n \in pinned |-> IF n \in gone THEN 0 ELSE pins[n]]
    /\ admin' = [b \in Admins |->
                    IF b = a THEN next
                    ELSE [admin[b] EXCEPT !.stale = @ \/ (lost /\ admin[b].pc # "off")]]
    /\ tool' = [tool EXCEPT !.sound = @ /\ ~lost]

(* One fwload per interface at a time: the operator's discipline. *)
Free(a, i) == admin[a].pc = "off" /\ \A b \in Admins : admin[b].iface # i

-----------------------------------------------------------------------------
(* fwload -i IFACE *)

StartLoad(a, i) ==
    /\ Free(a, i) /\ loads < MaxLoads
    /\ loads' = loads + 1
    /\ admin' = [admin EXCEPT ![a] = [Off EXCEPT !.pc = "load", !.iface = i,
                                          !.id = loads + 1, !.todo = Names]]
    /\ UNCHANGED <<pins, attached, written, tool, stranded, abandoned>>

(* Mutant of Reusable: the maps are pinned afresh, as the program is. *)
ReusableNever(n) == FALSE

(* "libbpf reuses an existing pinned map instead of creating a new one" *)
Reusable(n) == pins[n] # 0

(* bpf_object__load, one map *)
OpenMap(a, n) ==
    /\ admin[a].pc = "load" /\ n \in admin[a].todo
    /\ LET id == IF Reusable(n) THEN pins[n] ELSE admin[a].id IN
       /\ pins' = [pins EXCEPT ![n] = id]
       /\ admin' = [admin EXCEPT ![a].todo = @ \ {n}, ![a].maps[n] = id,
                                 ![a].new = IF Reusable(n) THEN @ ELSE @ \cup {n}]
    /\ UNCHANGED <<attached, written, loads, tool, stranded, abandoned>>

(* A map cannot be made, or the verifier rejects the program: libbpf unpins  *)
(* the maps it has created.                                                  *)
LoadFails(a) ==
    /\ admin[a].pc = "load"
    /\ Removal(a, Off, admin[a].new)
    /\ stranded' = stranded \cup {i \in Ifaces : \E n \in admin[a].new :
                       admin[a].stale \/ attached[i].maps[n] = admin[a].id}
    /\ abandoned' = abandoned \cup {admin[a].id}
    /\ UNCHANGED <<attached, written, loads>>

Loaded(a) ==
    /\ admin[a].pc = "load" /\ admin[a].todo = {}
    /\ admin' = [admin EXCEPT ![a].pc = "config"]
    /\ UNCHANGED <<pins, attached, written, loads, tool, stranded, abandoned>>

(* The defaults replace whatever was set. *)
WriteConfig(a) ==
    /\ admin[a].pc = "config"
    /\ written' = written \ {<<"config", admin[a].maps["config"]>>}
    /\ admin' = [admin EXCEPT ![a].pc = "unpin"]
    /\ UNCHANGED <<pins, attached, loads, tool, stranded, abandoned>>

(* Mutant of Vacated: no unlink before bpf_program__pin. *)
VacatedNever == pins[PROG]

(* unlink(path) *)
Vacated == 0

UnlinkProg(a) ==
    /\ admin[a].pc = "unpin"
    /\ pins' = [pins EXCEPT ![PROG] = Vacated]
    /\ admin' = [admin EXCEPT ![a].pc = "pin"]
    /\ UNCHANGED <<attached, written, loads, tool, stranded, abandoned>>

(* bpf_program__pin, whose result nobody looks at; EEXIST if it is there. *)
PinProg(a) ==
    /\ admin[a].pc = "pin"
    /\ \/ pins[PROG] = 0 /\ pins' = [pins EXCEPT ![PROG] = admin[a].id]
       \/ UNCHANGED pins
    /\ admin' = [admin EXCEPT ![a].pc = "attach"]
    /\ UNCHANGED <<attached, written, loads, tool, stranded, abandoned>>

(* XDP_ATTACH replaces the program, but not one attached in the other mode. *)
Attachable(i, mode) ==
    /\ mode = "native" => i \in Native
    /\ attached[i].mode \in {"none", mode}

Attach(a, mode) ==
    LET i == admin[a].iface IN
    /\ admin[a].pc = "attach" /\ Attachable(i, mode)
    /\ attached' = [attached EXCEPT ![i] = [prog |-> admin[a].id, mode |-> mode,
                                            maps |-> admin[a].maps]]
    /\ stranded' = IF admin[a].stale THEN stranded \cup {i} ELSE stranded \ {i}
    /\ admin' = [admin EXCEPT ![a] = Off]
    /\ UNCHANGED <<pins, written, loads, tool, abandoned>>

(* Mutant of Undone: a failed load removes the pins it leaves behind. *)
UndoneUnpins == [n \in pinned |-> 0]

(* goto fail: bpf_object__close leaves every pin where it is. *)
Undone == pins

(* The config cannot be written, or neither mode can be attached. *)
Fails(a) ==
    /\ admin[a].pc \in {"config", "attach"}
    /\ pins' = Undone
    /\ admin' = [admin EXCEPT ![a] = Off]
    /\ abandoned' = abandoned \cup {admin[a].id}
    /\ UNCHANGED <<attached, written, loads, tool, stranded>>

-----------------------------------------------------------------------------
(* fwload -i IFACE -u *)

StartUnload(a, i) ==
    /\ Free(a, i)
    /\ admin' = [admin EXCEPT ![a] = [Off EXCEPT !.pc = "detach", !.iface = i]]
    /\ UNCHANGED <<pins, attached, written, loads, tool, stranded, abandoned>>

(* XDP_DETACH without a mode flag means the driver's own mode, and succeeds  *)
(* if nothing is attached in it.  A failure is only worth a warning.         *)
Detach(a) ==
    LET i == admin[a].iface IN
    /\ admin[a].pc = "detach"
    /\ \/ /\ attached[i].mode = IF i \in Native THEN "native" ELSE "skb"
          /\ attached' = [attached EXCEPT ![i] = None]
       \/ UNCHANGED attached
    /\ admin' = [admin EXCEPT ![a].pc = "unlink", ![a].todo = pinned,
                              ![a].missed = attached'[i] # None]
    /\ UNCHANGED <<pins, written, loads, tool, stranded, abandoned>>

(* One name of `pinned`: whoever is still attached can no longer be reached. *)
Unlink(a, n) ==
    LET i == admin[a].iface IN
    /\ admin[a].pc = "unlink" /\ n \in admin[a].todo
    /\ Removal(a, [admin[a] EXCEPT !.todo = @ \ {n}], {n})
    /\ stranded' = stranded \cup {j \in Ifaces :
                      n \in Names /\ attached[j] # None /\ (j # i \/ admin[a].missed)}
    /\ UNCHANGED <<attached, written, loads, abandoned>>

Unloaded(a) ==
    /\ admin[a].pc = "unlink" /\ admin[a].todo = {}
    /\ admin' = [admin EXCEPT ![a] = Off]
    /\ UNCHANGED <<pins, attached, written, loads, tool, stranded, abandoned>>

(* fwload dies.  What it was to attach, or has detached, may stay pinned. *)
Kill(a) ==
    /\ admin[a].pc # "off"
    /\ admin' = [admin EXCEPT ![a] = Off]
    /\ abandoned' = abandoned \cup {IF admin[a].id = 0 THEN pins[PROG] ELSE admin[a].id}
    /\ UNCHANGED <<pins, attached, written, loads, tool, stranded>>

-----------------------------------------------------------------------------
(* The tools: Firewall.__init__ opens the maps one by one and keeps them     *)
(* open until close.                                                         *)

StartTool ==
    /\ tool.pc = "off"
    /\ tool' = [Closed EXCEPT !.pc = "open", !.todo = Names, !.sound = TRUE]
    /\ UNCHANGED <<pins, attached, written, loads, admin, stranded, abandoned>>

(* Mutant of NotFound: _open_pinned does not look at what OBJ_GET returns. *)
NotFoundNever(n) == FALSE

(* _open_pinned: ENOENT *)
NotFound(n) == pins[n] = 0

(* A map that is not there ends the tool: "is the firewall loaded?" *)
OpenPinned(n) ==
    /\ tool.pc = "open" /\ n \in tool.todo
    /\ tool' = IF NotFound(n) THEN Closed
               ELSE [tool EXCEPT !.todo = @ \ {n}, !.fds[n] = pins[n]]
    /\ UNCHANGED <<pins, attached, written, loads, admin, stranded, abandoned>>

Opened ==
    /\ tool.pc = "open" /\ tool.todo = {}
    /\ tool' = [tool EXCEPT !.pc = "ready"]
    /\ UNCHANGED <<pins, attached, written, loads, admin, stranded, abandoned>>

(* BpfMap.update and delete on whatever the descriptor refers to *)
Write(n) ==
    /\ tool.pc = "ready"
    /\ written' = written \cup {<<n, tool.fds[n]>>}
    /\ UNCHANGED <<pins, attached, loads, admin, tool, stranded, abandoned>>

Erase(n) ==
    /\ tool.pc = "ready"
    /\ written' = written \ {<<n, tool.fds[n]>>}
    /\ UNCHANGED <<pins, attached, loads, admin, tool, stranded, abandoned>>

(* prog_info opens the program's pin as well, for a moment. *)
ProgInfoFails ==
    /\ tool.pc = "ready" /\ NotFound(PROG)
    /\ tool' = Closed
    /\ UNCHANGED <<pins, attached, written, loads, admin, stranded, abandoned>>

(* close(), or the end of the process *)
Close ==
    /\ tool.pc # "off"
    /\ tool' = Closed
    /\ UNCHANGED <<pins, attached, written, loads, admin, stranded, abandoned>>

-----------------------------------------------------------------------------

Load(a) ==
    \/ \E i \in Ifaces : StartLoad(a, i)
    \/ \E n \in Names : OpenMap(a, n)
    \/ LoadFails(a) \/ Loaded(a) \/ WriteConfig(a) \/ UnlinkProg(a) \/ PinProg(a)
    \/ \E mode \in {"native", "skb"} : Attach(a, mode)
    \/ Fails(a)

Unload(a) ==
    \/ \E i \in Ifaces : StartUnload(a, i)
    \/ Detach(a) \/ Unloaded(a)
    \/ \E n \in pinned : Unlink(a, n)

Tool == \/ StartTool \/ Opened \/ ProgInfoFails \/ Close
        \/ \E n \in Names : OpenPinned(n)
        \/ \E n \in Edited : Write(n) \/ Erase(n)

Next == Tool \/ \E a \in Admins : Load(a) \/ Unload(a) \/ Kill(a)

Spec == Init /\ [][Next]_vars

-----------------------------------------------------------------------------
Phases == {"off", "load", "config", "unpin", "pin", "attach", "detach", "unlink"}

ProgType  == [prog : Nat, mode : {"none", "native", "skb"}, maps : [Names -> Nat]]
AdminType == [pc : Phases, iface : Ifaces \cup {"none"}, id : Nat, todo : SUBSET pinned,
              maps : [Names -> Nat], new : SUBSET Names, stale : BOOLEAN, missed : BOOLEAN]
ToolType  == [pc : {"off", "open", "ready"}, todo : SUBSET Names,
              fds : [Names -> Nat], sound : BOOLEAN]

(* Pins, programs, the loader's and the tool's locals stay in their types;   *)
(* a tool works with all maps open or not at all.                            *)
TypeOK ==
    /\ pins \in [pinned -> Nat]
    /\ attached \in [Ifaces -> ProgType]
    /\ written \subseteq Names \X Nat /\ loads \in Nat
    /\ admin \in [Admins -> AdminType]
    /\ \A a \in Admins : admin[a].pc # "off" => admin[a].iface \in Ifaces
    /\ tool \in ToolType
    /\ tool.pc = "ready" => \A n \in Names : tool.fds[n] # 0
    /\ stranded \subseteq Ifaces /\ abandoned \subseteq Nat

Running(i) == attached[i] # None /\ i \notin stranded

(* "bpffs holds the pinned maps ... what lets the Python tools open the maps *)
(* later by path": every map of an attached program is what is pinned under  *)
(* its name, through loads on any interface that succeed, fail or die at any *)
(* point, and an unload never leaves a program it detaches behind its pins.  *)
(* The exceptions are programs whose pins someone removed: an unload that    *)
(* could not detach them or was for another interface, or a load that failed *)
(* after they had taken over its maps, or after an unload.                   *)
PinsReachProgram ==
    \A i \in Ifaces : Running(i) => \A n \in Names : pins[n] = attached[i].maps[n]

(* A tool none of whose maps was unpinned since it started works on the maps *)
(* of every program that runs, however its opening of them one by one and    *)
(* its later calls interleave with loads.                                    *)
ToolsReachProgram ==
    tool.pc = "ready" /\ tool.sound =>
        \A i \in Ifaces : Running(i) => tool.fds = attached[i].maps

(* "a reload keeps the blocklist": what the operator has written to a map    *)
(* (other than config) that an attached program uses stays in force until a  *)
(* tool erases it or an unload detaches the program.                         *)
KeptStep ==
    \A i \in Ifaces, n \in Names \ {"config"} :
        (Running(i) /\ <<n, attached[i].maps[n]>> \in written) =>
            \/ <<n, attached'[i].maps[n]>> \in written'
            \/ tool.pc = "ready" /\ Erase(n)
            \/ \E a \in Admins : admin[a].iface = i /\ Detach(a)
ReloadKeepsEntries == [][KeptStep]_vars

(* What fwctl status reports (prog_info, "straight from the kernel") is a    *)
(* program that runs: when no fwload is at work, the pinned program is       *)
(* attached somewhere, unless its load was given up or killed after pinning. *)
PinnedProgramRuns ==
    (\A a \in Admins : admin[a].pc = "off") /\ pins[PROG] \notin abandoned \cup {0}
        => \E i \in Ifaces : attached[i].prog = pins[PROG]
=============================================================================
