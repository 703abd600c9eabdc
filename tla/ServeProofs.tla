---------------------------- MODULE ServeProofs -----------------------------
(***************************************************************************)
(* What serve promises the commands that act on a running server: the      *)
(* state file's safety, for any number of serve processes and of kills,    *)
(* and that reloads take effect, for any route calls, settings and flags.  *)
(***************************************************************************)
EXTENDS ServeState, Reload, TLAPS

----------------------------------------------------------------------------
(* The state file: the inductive invariant.                                *)

CmdTyped == cmd = [kind |-> cmd.kind, at |-> cmd.at, pid |-> cmd.pid]

\* What a process that is about to do something has bound and opened.
PortsHeld ==
  \A p \in Procs :
    /\ pc[p] \in {"listenDash", "truncate", "rewrite", "serve"} => proxy = p
    /\ pc[p] \in {"truncate", "rewrite", "serve", "shutDash"} => dash = p

StoreHeld ==
  \A p \in store : pc[p] \in {"listenProxy", "listenDash", "truncate", "rewrite", "serve",
                              "shutDash", "join", "closeStore"}

\* A process the file names has written it, and has not come to an end that
\* should have removed it.
NamedWrote ==
  \A p \in Procs : file = p =>
    /\ pc[p] \notin {"new", "create", "encode", "readOld", "takeOver"}
    /\ pc[p] = "exited" => p \in bindLost \cup suppress

WinnerServed ==
  winner \in Procs =>
    pc[winner] \in {"serve", "shutDash", "join", "closeStore", "removeLook", "remove",
                    "exited", "killed"}

\* What a look at the file said still holds while nobody has changed it.
LooksHold ==
  \A p \in current \cap Procs :
    /\ pc[p] \in {"encode", "rewrite"} => file = Nobody
    /\ pc[p] = "takeOver" => file \in Procs \cup {Dead} /\ ~Alive(file)
    /\ pc[p] = "remove" => file = p

CommandLookHolds ==
  Command \in current =>
    /\ cmd.at \in {"probe", "pid", "removeStale"} => file = cmd.pid
    /\ cmd.at = "removeStale" => ~Alive(cmd.pid)

\* While the last winner's store is open the file names it or is being
\* rewritten by a process that has its ports.
WinnerKept ==
  intact /\ winner \in store =>
    /\ file \in {winner, Nobody}
    /\ \A p \in current \cap Procs : pc[p] # "encode"

Inv ==
  /\ TypeOK /\ CmdTyped /\ PortsHeld /\ StoreHeld /\ NamedWrote /\ WinnerServed
  /\ LooksHold /\ CommandLookHolds /\ WinnerKept /\ WinnerOwnsFile

LEMMA Distinct ==
  /\ Dead \notin Procs /\ Nobody \notin Procs /\ Absent \notin Procs
  /\ Free \notin Procs /\ Command \notin Procs
  /\ Dead # Nobody /\ Dead # Absent /\ Nobody # Absent
  BY ServeStateAssumption DEF Dead, Nobody, Absent, Free, Command

----------------------------------------------------------------------------
(* Every step keeps it.                                                    *)

LEMMA EncodeKeeps ==
  ASSUME Inv, NEW p \in Procs, Encode(p)
  PROVE  Inv'
<1> USE Distinct, ServeStateAssumption DEF Inv, Encode, Written, Goto,
       Change, Trusts, procVars, ports, history
<1>1. TypeOK' /\ CmdTyped'
  BY ZenonT(60) DEF TypeOK, CmdTyped, PortsHeld, StoreHeld, Labels, Alive
<1>2. PortsHeld' /\ StoreHeld' /\ NamedWrote' /\ WinnerServed'
  BY ZenonT(60) DEF PortsHeld, TypeOK, StoreHeld, NamedWrote, WinnerServed
<1>3. LooksHold' /\ CommandLookHolds'
  BY DEF LooksHold, TypeOK, NamedWrote, Alive, CommandLookHolds, CmdTyped
<1>4. WinnerKept' /\ WinnerOwnsFile'
  BY DEF WinnerKept, TypeOK, WinnerServed, LooksHold, StoreHeld, CommandLookHolds, WinnerOwnsFile, PortsHeld, NamedWrote
<1> QED
  BY <1>1, <1>2, <1>3, <1>4

LEMMA ReadOldKeeps ==
  ASSUME Inv, NEW p \in Procs, ReadOld(p)
  PROVE  Inv'
<1> USE Distinct, ServeStateAssumption DEF Inv, ReadOld, Alive, Goto,
       Change, Trusts, procVars, ports, history
<1>1. TypeOK' /\ CmdTyped'
  BY ZenonT(60) DEF TypeOK, CmdTyped, PortsHeld, StoreHeld, Labels, Alive
<1>2. PortsHeld' /\ StoreHeld' /\ NamedWrote' /\ WinnerServed'
  BY DEF PortsHeld, TypeOK, StoreHeld, NamedWrote, WinnerServed
<1>3. LooksHold' /\ CommandLookHolds'
  BY DEF LooksHold, TypeOK, NamedWrote, Alive, CommandLookHolds, CmdTyped
<1>4. WinnerKept' /\ WinnerOwnsFile'
  BY DEF WinnerKept, TypeOK, WinnerServed, LooksHold, StoreHeld, CommandLookHolds, WinnerOwnsFile, PortsHeld, NamedWrote
<1> QED
  BY <1>1, <1>2, <1>3, <1>4

LEMMA OpenStoreKeeps ==
  ASSUME Inv, NEW p \in Procs, OpenStore(p)
  PROVE  Inv'
<1> USE Distinct, ServeStateAssumption DEF Inv, OpenStore, Goto,
       Change, Trusts, procVars, ports, history
<1>1. TypeOK' /\ CmdTyped'
  <2>1. file' \in Procs \cup {Dead, Nobody, Absent} /\ pc' \in [Procs -> Labels]
    BY DEF TypeOK, Labels
  <2>2. crashes' \in 0..MaxCrashes
    BY DEF TypeOK
  <2>3. /\ proxy' # Free => proxy' \in Procs /\ pc'[proxy'] \in {"listenDash", "truncate", "rewrite", "serve"}
        /\ dash' # Free => dash' \in Procs /\ pc'[dash'] \in {"truncate", "rewrite", "serve", "shutDash"}
    BY DEF TypeOK, PortsHeld
  <2>4. stopping' \subseteq Procs /\ bindLost' \subseteq Procs /\ suppress' \subseteq Procs
    BY DEF TypeOK
  <2>5. \A q \in store' : q \in Procs /\ pc'[q] \notin {"new", "exited", "killed"}
    BY ZenonT(60) DEF TypeOK, StoreHeld, Alive
  <2>6. /\ CmdTyped'
        /\ cmd.kind' \in {"none", "shutdown", "restart", "restart --exe", "rollback"}
        /\ cmd.pid' \in Procs \cup {Dead}
        /\ current' \subseteq Procs \cup {Command}
        /\ intact' \in BOOLEAN /\ winner' \in Procs \cup {Dead}
    BY DEF TypeOK, CmdTyped
  <2> QED
    BY <2>1, <2>2, <2>3, <2>4, <2>5, <2>6, ZenonT(60) DEF TypeOK, Alive
<1>2. PortsHeld'
  BY DEF PortsHeld, TypeOK
<1>3. StoreHeld'
  BY ZenonT(60) DEF StoreHeld, TypeOK
<1>4. NamedWrote'
  BY ZenonT(60) DEF NamedWrote, TypeOK
<1>5. WinnerServed'
  BY DEF WinnerServed, TypeOK
<1>6. LooksHold'
  BY ZenonT(60) DEF LooksHold, TypeOK, NamedWrote, Alive
<1>7. CommandLookHolds'
  BY ZenonT(60) DEF CommandLookHolds, TypeOK, NamedWrote, CmdTyped, Alive
<1>8. WinnerKept'
  BY ZenonT(60) DEF WinnerKept, TypeOK, WinnerServed, LooksHold, StoreHeld, CommandLookHolds
<1>9. WinnerOwnsFile'
  BY DEF WinnerOwnsFile, TypeOK, PortsHeld, LooksHold, CommandLookHolds, NamedWrote
<1> QED
  BY <1>1, <1>2, <1>3, <1>4, <1>5, <1>6, <1>7, <1>8, <1>9

LEMMA ListenProxyKeeps ==
  ASSUME Inv, NEW p \in Procs, ListenProxy(p)
  PROVE  Inv'
<1> USE Distinct, ServeStateAssumption DEF Inv, ListenProxy, Goto,
       Change, Trusts, procVars, ports, history
<1>1. TypeOK' /\ CmdTyped'
  <2>1. file' \in Procs \cup {Dead, Nobody, Absent} /\ pc' \in [Procs -> Labels]
    BY DEF TypeOK, Labels
  <2>2. crashes' \in 0..MaxCrashes
    BY DEF TypeOK
  <2>3. /\ proxy' # Free => proxy' \in Procs /\ pc'[proxy'] \in {"listenDash", "truncate", "rewrite", "serve"}
        /\ dash' # Free => dash' \in Procs /\ pc'[dash'] \in {"truncate", "rewrite", "serve", "shutDash"}
    BY ZenonT(60) DEF TypeOK, PortsHeld
  <2>4. stopping' \subseteq Procs /\ bindLost' \subseteq Procs /\ suppress' \subseteq Procs
    BY DEF TypeOK
  <2>5. \A q \in store' : q \in Procs /\ pc'[q] \notin {"new", "exited", "killed"}
    BY ZenonT(60) DEF TypeOK, StoreHeld, Alive
  <2>6. /\ CmdTyped'
        /\ cmd.kind' \in {"none", "shutdown", "restart", "restart --exe", "rollback"}
        /\ cmd.pid' \in Procs \cup {Dead}
        /\ current' \subseteq Procs \cup {Command}
        /\ intact' \in BOOLEAN /\ winner' \in Procs \cup {Dead}
    BY DEF TypeOK, CmdTyped
  <2> QED
    BY <2>1, <2>2, <2>3, <2>4, <2>5, <2>6, ZenonT(60) DEF TypeOK, Alive
<1>2. PortsHeld'
  BY DEF PortsHeld, TypeOK
<1>3. StoreHeld'
  BY ZenonT(60) DEF StoreHeld, TypeOK
<1>4. NamedWrote'
  BY ZenonT(60) DEF NamedWrote, TypeOK
<1>5. WinnerServed'
  BY DEF WinnerServed, TypeOK
<1>6. LooksHold'
  BY ZenonT(60) DEF LooksHold, TypeOK, NamedWrote, Alive
<1>7. CommandLookHolds'
  BY ZenonT(60) DEF CommandLookHolds, TypeOK, NamedWrote, CmdTyped, Alive
<1>8. WinnerKept'
  BY ZenonT(60) DEF WinnerKept, TypeOK, WinnerServed, LooksHold, StoreHeld, CommandLookHolds
<1>9. WinnerOwnsFile'
  BY DEF WinnerOwnsFile, TypeOK, PortsHeld, LooksHold, CommandLookHolds, NamedWrote
<1> QED
  BY <1>1, <1>2, <1>3, <1>4, <1>5, <1>6, <1>7, <1>8, <1>9

LEMMA ListenDashKeeps ==
  ASSUME Inv, NEW p \in Procs, ListenDash(p)
  PROVE  Inv'
<1> USE Distinct, ServeStateAssumption DEF Inv, ListenDash, Goto,
       Change, Trusts, procVars, ports, history
<1>1. TypeOK' /\ CmdTyped'
  <2>1. file' \in Procs \cup {Dead, Nobody, Absent} /\ pc' \in [Procs -> Labels]
    BY DEF TypeOK, Labels
  <2>2. crashes' \in 0..MaxCrashes
    BY DEF TypeOK
  <2>3. /\ proxy' # Free => proxy' \in Procs /\ pc'[proxy'] \in {"listenDash", "truncate", "rewrite", "serve"}
        /\ dash' # Free => dash' \in Procs /\ pc'[dash'] \in {"truncate", "rewrite", "serve", "shutDash"}
    BY ZenonT(60) DEF TypeOK, PortsHeld
  <2>4. stopping' \subseteq Procs /\ bindLost' \subseteq Procs /\ suppress' \subseteq Procs
    BY DEF TypeOK
  <2>5. \A q \in store' : q \in Procs /\ pc'[q] \notin {"new", "exited", "killed"}
    BY ZenonT(60) DEF TypeOK, StoreHeld, Alive
  <2>6. /\ CmdTyped'
        /\ cmd.kind' \in {"none", "shutdown", "restart", "restart --exe", "rollback"}
        /\ cmd.pid' \in Procs \cup {Dead}
        /\ current' \subseteq Procs \cup {Command}
        /\ intact' \in BOOLEAN /\ winner' \in Procs \cup {Dead}
    BY DEF TypeOK, CmdTyped
  <2> QED
    BY <2>1, <2>2, <2>3, <2>4, <2>5, <2>6, ZenonT(60) DEF TypeOK, Alive
<1>2. PortsHeld'
  BY DEF PortsHeld, TypeOK
<1>3. StoreHeld'
  BY ZenonT(60) DEF StoreHeld, TypeOK
<1>4. NamedWrote'
  BY ZenonT(60) DEF NamedWrote, TypeOK
<1>5. WinnerServed'
  BY DEF WinnerServed, TypeOK
<1>6. LooksHold'
  BY ZenonT(60) DEF LooksHold, TypeOK, NamedWrote, Alive
<1>7. CommandLookHolds'
  BY ZenonT(60) DEF CommandLookHolds, TypeOK, NamedWrote, CmdTyped, Alive
<1>8. WinnerKept'
  BY ZenonT(60) DEF WinnerKept, TypeOK, WinnerServed, LooksHold, StoreHeld, CommandLookHolds
<1>9. WinnerOwnsFile'
  BY ZenonT(60) DEF WinnerOwnsFile, TypeOK, PortsHeld, LooksHold, CommandLookHolds, NamedWrote
<1> QED
  BY <1>1, <1>2, <1>3, <1>4, <1>5, <1>6, <1>7, <1>8, <1>9

LEMMA TruncateKeeps ==
  ASSUME Inv, NEW p \in Procs, Truncate(p)
  PROVE  Inv'
<1> USE Distinct, ServeStateAssumption DEF Inv, Truncate, Goto,
       Change, Trusts, procVars, ports, history
<1>1. TypeOK' /\ CmdTyped'
  BY DEF TypeOK, CmdTyped, PortsHeld, StoreHeld, Labels, Alive
<1>2. PortsHeld' /\ StoreHeld' /\ NamedWrote' /\ WinnerServed'
  BY DEF PortsHeld, TypeOK, StoreHeld, NamedWrote, WinnerServed
<1>3. LooksHold' /\ CommandLookHolds'
  BY DEF LooksHold, TypeOK, NamedWrote, Alive, CommandLookHolds, CmdTyped
<1>4. WinnerKept' /\ WinnerOwnsFile'
  BY DEF WinnerKept, TypeOK, WinnerServed, LooksHold, StoreHeld, CommandLookHolds, WinnerOwnsFile, PortsHeld, NamedWrote
<1> QED
  BY <1>1, <1>2, <1>3, <1>4

LEMMA RewriteKeeps ==
  ASSUME Inv, NEW p \in Procs, Rewrite(p)
  PROVE  Inv'
<1> USE Distinct, ServeStateAssumption DEF Inv, Rewrite, Written, Goto,
       Change, Trusts, procVars, ports, history
<1>1. TypeOK' /\ CmdTyped'
  BY ZenonT(60) DEF TypeOK, CmdTyped, PortsHeld, StoreHeld, Labels, Alive
<1>2. PortsHeld' /\ StoreHeld' /\ NamedWrote' /\ WinnerServed'
  BY ZenonT(60) DEF PortsHeld, TypeOK, StoreHeld, NamedWrote, WinnerServed
<1>3. LooksHold' /\ CommandLookHolds'
  BY DEF LooksHold, TypeOK, NamedWrote, Alive, CommandLookHolds, CmdTyped
<1>4. WinnerKept' /\ WinnerOwnsFile'
  BY ZenonT(60) DEF WinnerKept, TypeOK, WinnerServed, LooksHold, StoreHeld, CommandLookHolds, WinnerOwnsFile, PortsHeld, NamedWrote
<1> QED
  BY <1>1, <1>2, <1>3, <1>4

LEMMA InterruptKeeps ==
  ASSUME Inv, NEW p \in Procs, Interrupt(p)
  PROVE  Inv'
<1> USE Distinct, ServeStateAssumption DEF Inv, Interrupt,
       Change, Trusts, procVars, ports, history
<1>1. TypeOK' /\ CmdTyped'
  BY ZenonT(60) DEF TypeOK, CmdTyped, PortsHeld, StoreHeld, Labels, Alive
<1>2. PortsHeld' /\ StoreHeld' /\ NamedWrote' /\ WinnerServed'
  BY DEF PortsHeld, TypeOK, StoreHeld, NamedWrote, WinnerServed
<1>3. LooksHold' /\ CommandLookHolds'
  BY DEF LooksHold, TypeOK, NamedWrote, Alive, CommandLookHolds, CmdTyped
<1>4. WinnerKept' /\ WinnerOwnsFile'
  BY DEF WinnerKept, TypeOK, WinnerServed, LooksHold, StoreHeld, CommandLookHolds, WinnerOwnsFile, PortsHeld, NamedWrote
<1> QED
  BY <1>1, <1>2, <1>3, <1>4

LEMMA ShutProxyKeeps ==
  ASSUME Inv, NEW p \in Procs, ShutProxy(p)
  PROVE  Inv'
<1> USE Distinct, ServeStateAssumption DEF Inv, ShutProxy, Goto,
       Change, Trusts, procVars, ports, history
<1>1. TypeOK' /\ CmdTyped'
  BY DEF TypeOK, CmdTyped, PortsHeld, StoreHeld, Labels, Alive
<1>2. PortsHeld' /\ StoreHeld' /\ NamedWrote' /\ WinnerServed'
  BY DEF PortsHeld, TypeOK, StoreHeld, NamedWrote, WinnerServed
<1>3. LooksHold' /\ CommandLookHolds'
  BY DEF LooksHold, TypeOK, NamedWrote, Alive, CommandLookHolds, CmdTyped
<1>4. WinnerKept' /\ WinnerOwnsFile'
  BY DEF WinnerKept, TypeOK, WinnerServed, LooksHold, StoreHeld, CommandLookHolds, WinnerOwnsFile, PortsHeld, NamedWrote
<1> QED
  BY <1>1, <1>2, <1>3, <1>4

LEMMA ShutDashKeeps ==
  ASSUME Inv, NEW p \in Procs, ShutDash(p)
  PROVE  Inv'
<1> USE Distinct, ServeStateAssumption DEF Inv, ShutDash, Goto,
       Change, Trusts, procVars, ports, history
<1>1. TypeOK' /\ CmdTyped'
  BY DEF TypeOK, CmdTyped, PortsHeld, StoreHeld, Labels, Alive
<1>2. PortsHeld' /\ StoreHeld' /\ NamedWrote' /\ WinnerServed'
  BY DEF PortsHeld, TypeOK, StoreHeld, NamedWrote, WinnerServed
<1>3. LooksHold' /\ CommandLookHolds'
  BY DEF LooksHold, TypeOK, NamedWrote, Alive, CommandLookHolds, CmdTyped
<1>4. WinnerKept' /\ WinnerOwnsFile'
  BY DEF WinnerKept, TypeOK, WinnerServed, LooksHold, StoreHeld, CommandLookHolds, WinnerOwnsFile, PortsHeld, NamedWrote
<1> QED
  BY <1>1, <1>2, <1>3, <1>4

LEMMA JoinKeeps ==
  ASSUME Inv, NEW p \in Procs, Join(p)
  PROVE  Inv'
<1> USE Distinct, ServeStateAssumption DEF Inv, Join, Goto,
       Change, Trusts, procVars, ports, history
<1>1. TypeOK' /\ CmdTyped'
  <2>1. file' \in Procs \cup {Dead, Nobody, Absent} /\ pc' \in [Procs -> Labels]
    BY DEF TypeOK, Labels
  <2>2. crashes' \in 0..MaxCrashes
    BY DEF TypeOK
  <2>3. /\ proxy' # Free => proxy' \in Procs /\ pc'[proxy'] \in {"listenDash", "truncate", "rewrite", "serve"}
        /\ dash' # Free => dash' \in Procs /\ pc'[dash'] \in {"truncate", "rewrite", "serve", "shutDash"}
    BY DEF TypeOK, PortsHeld
  <2>4. stopping' \subseteq Procs /\ bindLost' \subseteq Procs /\ suppress' \subseteq Procs
    BY DEF TypeOK
  <2>5. \A q \in store' : q \in Procs /\ pc'[q] \notin {"new", "exited", "killed"}
    BY DEF TypeOK, StoreHeld, Alive
  <2>6. /\ CmdTyped'
        /\ cmd.kind' \in {"none", "shutdown", "restart", "restart --exe", "rollback"}
        /\ cmd.pid' \in Procs \cup {Dead}
        /\ current' \subseteq Procs \cup {Command}
        /\ intact' \in BOOLEAN /\ winner' \in Procs \cup {Dead}
    BY DEF TypeOK, CmdTyped
  <2> QED
    BY <2>1, <2>2, <2>3, <2>4, <2>5, <2>6, ZenonT(60) DEF TypeOK, Alive
<1>2. PortsHeld' /\ StoreHeld' /\ NamedWrote' /\ WinnerServed'
  BY DEF PortsHeld, TypeOK, StoreHeld, NamedWrote, WinnerServed
<1>3. LooksHold' /\ CommandLookHolds'
  BY ZenonT(60) DEF LooksHold, TypeOK, NamedWrote, Alive, CommandLookHolds, CmdTyped
<1>4. WinnerKept' /\ WinnerOwnsFile'
  BY DEF WinnerKept, TypeOK, WinnerServed, LooksHold, StoreHeld, CommandLookHolds, WinnerOwnsFile, PortsHeld, NamedWrote
<1> QED
  BY <1>1, <1>2, <1>3, <1>4

LEMMA CloseStoreKeeps ==
  ASSUME Inv, NEW p \in Procs, CloseStore(p)
  PROVE  Inv'
<1> USE Distinct, ServeStateAssumption DEF Inv, CloseStore, Goto,
       Change, Trusts, procVars, ports, history
<1>1. TypeOK' /\ CmdTyped'
  BY DEF TypeOK, CmdTyped, PortsHeld, StoreHeld, Labels, Alive
<1>2. PortsHeld' /\ StoreHeld' /\ NamedWrote' /\ WinnerServed'
  BY DEF PortsHeld, TypeOK, StoreHeld, NamedWrote, WinnerServed
<1>3. LooksHold' /\ CommandLookHolds'
  BY DEF LooksHold, TypeOK, NamedWrote, Alive, CommandLookHolds, CmdTyped
<1>4. WinnerKept' /\ WinnerOwnsFile'
  BY DEF WinnerKept, TypeOK, WinnerServed, LooksHold, StoreHeld, CommandLookHolds, WinnerOwnsFile, PortsHeld, NamedWrote
<1> QED
  BY <1>1, <1>2, <1>3, <1>4

LEMMA RemoveLookKeeps ==
  ASSUME Inv, NEW p \in Procs, RemoveLook(p)
  PROVE  Inv'
<1> USE Distinct, ServeStateAssumption DEF Inv, RemoveLook, Goto,
       Change, Trusts, procVars, ports, history
<1>1. TypeOK' /\ CmdTyped'
  BY DEF TypeOK, CmdTyped, PortsHeld, StoreHeld, Labels, Alive
<1>2. PortsHeld' /\ StoreHeld' /\ NamedWrote' /\ WinnerServed'
  BY DEF PortsHeld, TypeOK, StoreHeld, NamedWrote, WinnerServed
<1>3. LooksHold' /\ CommandLookHolds'
  BY DEF LooksHold, TypeOK, NamedWrote, Alive, CommandLookHolds, CmdTyped
<1>4. WinnerKept' /\ WinnerOwnsFile'
  BY DEF WinnerKept, TypeOK, WinnerServed, LooksHold, StoreHeld, CommandLookHolds, WinnerOwnsFile, PortsHeld, NamedWrote
<1> QED
  BY <1>1, <1>2, <1>3, <1>4

LEMMA RemoveKeeps ==
  ASSUME Inv, NEW p \in Procs, Remove(p)
  PROVE  Inv'
<1> USE Distinct, ServeStateAssumption DEF Inv, Remove, Goto,
       Change, Trusts, procVars, ports, history
<1>1. TypeOK' /\ CmdTyped'
  BY DEF TypeOK, CmdTyped, PortsHeld, StoreHeld, Labels, Alive
<1>2. PortsHeld' /\ StoreHeld' /\ NamedWrote' /\ WinnerServed'
  BY DEF PortsHeld, TypeOK, StoreHeld, NamedWrote, WinnerServed
<1>3. LooksHold' /\ CommandLookHolds'
  BY DEF LooksHold, TypeOK, NamedWrote, Alive, CommandLookHolds, CmdTyped
<1>4. WinnerKept' /\ WinnerOwnsFile'
  BY ZenonT(60) DEF WinnerKept, TypeOK, WinnerServed, LooksHold, StoreHeld, CommandLookHolds, WinnerOwnsFile, PortsHeld, NamedWrote
<1> QED
  BY <1>1, <1>2, <1>3, <1>4

LEMMA RunCommandKeeps ==
  ASSUME Inv, RunCommand
  PROVE  Inv'
<1> USE Distinct, ServeStateAssumption DEF Inv, RunCommand, CmdGoto, CmdUnchanged,
       Change, Trusts, procVars, ports, history
<1>1. TypeOK' /\ CmdTyped'
  BY ZenonT(60) DEF TypeOK, CmdTyped, PortsHeld, StoreHeld, Labels, Alive
<1>2. PortsHeld' /\ StoreHeld' /\ NamedWrote' /\ WinnerServed'
  BY DEF PortsHeld, TypeOK, StoreHeld, NamedWrote, WinnerServed
<1>3. LooksHold' /\ CommandLookHolds'
  BY DEF LooksHold, TypeOK, NamedWrote, Alive, CommandLookHolds, CmdTyped
<1>4. WinnerKept' /\ WinnerOwnsFile'
  BY DEF WinnerKept, TypeOK, WinnerServed, LooksHold, StoreHeld, CommandLookHolds, WinnerOwnsFile, PortsHeld, NamedWrote
<1> QED
  BY <1>1, <1>2, <1>3, <1>4

LEMMA CmdReadKeeps ==
  ASSUME Inv, CmdRead
  PROVE  Inv'
<1> USE Distinct, ServeStateAssumption DEF Inv, CmdRead, CmdGoto, CmdUnchanged,
       Change, Trusts, procVars, ports, history
<1>1. TypeOK' /\ CmdTyped'
  BY ZenonT(60) DEF TypeOK, CmdTyped, PortsHeld, StoreHeld, Labels, Alive
<1>2. PortsHeld' /\ StoreHeld' /\ NamedWrote' /\ WinnerServed'
  BY DEF PortsHeld, TypeOK, StoreHeld, NamedWrote, WinnerServed
<1>3. LooksHold' /\ CommandLookHolds'
  BY DEF LooksHold, TypeOK, NamedWrote, Alive, CommandLookHolds, CmdTyped
<1>4. WinnerKept' /\ WinnerOwnsFile'
  BY DEF WinnerKept, TypeOK, WinnerServed, LooksHold, StoreHeld, CommandLookHolds, WinnerOwnsFile, PortsHeld, NamedWrote
<1> QED
  BY <1>1, <1>2, <1>3, <1>4

LEMMA CmdProbeKeeps ==
  ASSUME Inv, CmdProbe
  PROVE  Inv'
<1> USE Distinct, ServeStateAssumption DEF Inv, CmdProbe, CmdGoto, CmdUnchanged,
       Change, Trusts, procVars, ports, history
<1>1. TypeOK' /\ CmdTyped'
  BY DEF TypeOK, CmdTyped, PortsHeld, StoreHeld, Labels, Alive
<1>2. PortsHeld' /\ StoreHeld' /\ NamedWrote' /\ WinnerServed'
  BY DEF PortsHeld, TypeOK, StoreHeld, NamedWrote, WinnerServed
<1>3. LooksHold' /\ CommandLookHolds'
  BY DEF LooksHold, TypeOK, NamedWrote, Alive, CommandLookHolds, CmdTyped
<1>4. WinnerKept' /\ WinnerOwnsFile'
  BY DEF WinnerKept, TypeOK, WinnerServed, LooksHold, StoreHeld, CommandLookHolds, WinnerOwnsFile, PortsHeld, NamedWrote
<1> QED
  BY <1>1, <1>2, <1>3, <1>4

LEMMA CmdPidKeeps ==
  ASSUME Inv, CmdPid
  PROVE  Inv'
<1> USE Distinct, ServeStateAssumption DEF Inv, CmdPid, Alive, CmdGoto, CmdUnchanged,
       Change, Trusts, procVars, ports, history
<1>1. TypeOK' /\ CmdTyped'
  BY DEF TypeOK, CmdTyped, PortsHeld, StoreHeld, Labels, Alive
<1>2. PortsHeld' /\ StoreHeld' /\ NamedWrote' /\ WinnerServed'
  BY DEF PortsHeld, TypeOK, StoreHeld, NamedWrote, WinnerServed
<1>3. LooksHold' /\ CommandLookHolds'
  BY DEF LooksHold, TypeOK, NamedWrote, Alive, CommandLookHolds, CmdTyped
<1>4. WinnerKept' /\ WinnerOwnsFile'
  BY DEF WinnerKept, TypeOK, WinnerServed, LooksHold, StoreHeld, CommandLookHolds, WinnerOwnsFile, PortsHeld, NamedWrote
<1> QED
  BY <1>1, <1>2, <1>3, <1>4

LEMMA CmdPostKeeps ==
  ASSUME Inv, CmdPost
  PROVE  Inv'
<1> USE Distinct, ServeStateAssumption DEF Inv, CmdPost, HealthUp, CmdGoto, CmdUnchanged,
       Change, Trusts, procVars, ports, history
<1>1. TypeOK' /\ CmdTyped'
  <2>1. file' \in Procs \cup {Dead, Nobody, Absent} /\ pc' \in [Procs -> Labels]
    BY DEF TypeOK, Labels
  <2>2. crashes' \in 0..MaxCrashes
    BY DEF TypeOK
  <2>3. /\ proxy' # Free => proxy' \in Procs /\ pc'[proxy'] \in {"listenDash", "truncate", "rewrite", "serve"}
        /\ dash' # Free => dash' \in Procs /\ pc'[dash'] \in {"truncate", "rewrite", "serve", "shutDash"}
    BY DEF TypeOK, PortsHeld
  <2>4. stopping' \subseteq Procs /\ bindLost' \subseteq Procs /\ suppress' \subseteq Procs
    BY DEF TypeOK
  <2>5. \A q \in store' : q \in Procs /\ pc'[q] \notin {"new", "exited", "killed"}
    BY DEF TypeOK, StoreHeld, Alive
  <2>6. /\ CmdTyped'
        /\ cmd.kind' \in {"none", "shutdown", "restart", "restart --exe", "rollback"}
        /\ cmd.pid' \in Procs \cup {Dead}
        /\ current' \subseteq Procs \cup {Command}
        /\ intact' \in BOOLEAN /\ winner' \in Procs \cup {Dead}
    BY DEF TypeOK, CmdTyped
  <2> QED
    BY ZenonT(60), <2>1, <2>2, <2>3, <2>4, <2>5, <2>6 DEF TypeOK, Alive
<1>2. PortsHeld' /\ StoreHeld' /\ NamedWrote' /\ WinnerServed'
  BY DEF PortsHeld, TypeOK, StoreHeld, NamedWrote, WinnerServed
<1>3. LooksHold' /\ CommandLookHolds'
  BY DEF LooksHold, TypeOK, NamedWrote, Alive, CommandLookHolds, CmdTyped
<1>4. WinnerKept' /\ WinnerOwnsFile'
  BY DEF WinnerKept, TypeOK, WinnerServed, LooksHold, StoreHeld, CommandLookHolds, WinnerOwnsFile, PortsHeld, NamedWrote
<1> QED
  BY <1>1, <1>2, <1>3, <1>4

LEMMA CmdWaitKeeps ==
  ASSUME Inv, CmdWait
  PROVE  Inv'
<1> USE Distinct, ServeStateAssumption DEF Inv, CmdWait, CmdGoto, CmdUnchanged,
       Change, Trusts, procVars, ports, history
<1>1. TypeOK' /\ CmdTyped'
  BY ZenonT(60) DEF TypeOK, CmdTyped, PortsHeld, StoreHeld, Labels, Alive
<1>2. PortsHeld' /\ StoreHeld' /\ NamedWrote' /\ WinnerServed'
  BY DEF PortsHeld, TypeOK, StoreHeld, NamedWrote, WinnerServed
<1>3. LooksHold' /\ CommandLookHolds'
  BY DEF LooksHold, TypeOK, NamedWrote, Alive, CommandLookHolds, CmdTyped
<1>4. WinnerKept' /\ WinnerOwnsFile'
  BY DEF WinnerKept, TypeOK, WinnerServed, LooksHold, StoreHeld, CommandLookHolds, WinnerOwnsFile, PortsHeld, NamedWrote
<1> QED
  BY <1>1, <1>2, <1>3, <1>4

LEMMA CmdLeaveKeeps ==
  ASSUME Inv, CmdLeave
  PROVE  Inv'
<1> USE Distinct, ServeStateAssumption DEF Inv, CmdLeave, CmdGoto, CmdUnchanged,
       Change, Trusts, procVars, ports, history
<1>1. TypeOK' /\ CmdTyped'
  BY DEF TypeOK, CmdTyped, PortsHeld, StoreHeld, Labels, Alive
<1>2. PortsHeld' /\ StoreHeld' /\ NamedWrote' /\ WinnerServed'
  BY DEF PortsHeld, TypeOK, StoreHeld, NamedWrote, WinnerServed
<1>3. LooksHold' /\ CommandLookHolds'
  BY DEF LooksHold, TypeOK, NamedWrote, Alive, CommandLookHolds, CmdTyped
<1>4. WinnerKept' /\ WinnerOwnsFile'
  BY DEF WinnerKept, TypeOK, WinnerServed, LooksHold, StoreHeld, CommandLookHolds, WinnerOwnsFile, PortsHeld, NamedWrote
<1> QED
  BY <1>1, <1>2, <1>3, <1>4

\* A process runs that did not, and nothing that was looked at is about it.
LEMMA CreateFileKeeps ==
  ASSUME Inv, NEW p \in Procs, pc[p] \in {"new", "create"}, CreateFile(p)
  PROVE  Inv'
<1> USE Distinct, ServeStateAssumption DEF Inv, CreateFile, Goto, Change, procVars, ports, history
<1>1. CASE file = Absent
  <2>1. pc' = [pc EXCEPT ![p] = "encode"] /\ file' = Nobody /\ current' = {p}
    BY <1>1
  <2>2. TypeOK' /\ CmdTyped'
    BY ZenonT(60), <2>1 DEF TypeOK, CmdTyped, StoreHeld, Labels, Alive
  <2>3. PortsHeld' /\ StoreHeld' /\ NamedWrote' /\ WinnerServed'
    BY <2>1 DEF TypeOK, PortsHeld, StoreHeld, NamedWrote, WinnerServed
  <2>4. LooksHold' /\ CommandLookHolds'
    BY <2>1 DEF TypeOK, LooksHold, CommandLookHolds
  <2>5. intact => winner \notin store
    BY <1>1 DEF WinnerKept, TypeOK
  <2>6. WinnerKept'
    BY <2>5 DEF WinnerKept
  <2>7. \A q \in Procs : pc'[q] = "serve" => pc[q] = "serve"
    BY <2>1 DEF TypeOK
  <2>8. WinnerOwnsFile'
    BY <1>1, <2>7 DEF WinnerOwnsFile
  <2> QED
    BY <2>2, <2>3, <2>4, <2>6, <2>8
<1>2. CASE file # Absent
  <2>1. /\ pc' = [pc EXCEPT ![p] = "readOld"] /\ file # p
        /\ UNCHANGED <<file, current, intact, winner>>
    BY <1>2 DEF NamedWrote
  <2>2. TypeOK' /\ CmdTyped'
    BY ZenonT(60), <2>1 DEF TypeOK, CmdTyped, StoreHeld, Labels, Alive
  <2>3. PortsHeld' /\ StoreHeld' /\ NamedWrote' /\ WinnerServed'
    BY <2>1 DEF TypeOK, PortsHeld, StoreHeld, NamedWrote, WinnerServed
  <2>4. Alive(file)' <=> Alive(file)
    BY <2>1 DEF TypeOK, Alive
  <2>5. LooksHold' /\ CommandLookHolds'
    BY <2>1, <2>4 DEF TypeOK, LooksHold, CommandLookHolds
  <2>6. /\ \A q \in Procs : pc'[q] = pc[q] \/ pc'[q] = "readOld"
        /\ UNCHANGED store
    BY <2>1 DEF TypeOK
  <2>7. WinnerKept'
    <3>1. SUFFICES ASSUME intact, winner \in store PROVE WinnerKept'
      BY <2>1, <2>6 DEF WinnerKept
    <3>2. file \in {winner, Nobody} /\ \A q \in current \cap Procs : pc[q] # "encode"
      BY <3>1 DEF WinnerKept
    <3> QED
      BY <2>1, <2>6, <3>2 DEF WinnerKept
  <2>8. WinnerOwnsFile'
    <3>1. SUFFICES ASSUME intact, NEW q \in Procs, pc'[q] = "serve" PROVE file' = q
      BY <2>1 DEF WinnerOwnsFile
    <3>2. pc[q] = "serve"
      BY <2>6, <3>1
    <3> QED
      BY <2>1, <3>1, <3>2 DEF WinnerOwnsFile
  <2> QED
    BY <2>2, <2>3, <2>5, <2>7, <2>8
<1> QED
  BY <1>1, <1>2

LEMMA StartKeeps ==
  ASSUME Inv, NEW p \in Procs, Start(p) \/ Create(p)
  PROVE  Inv'
  BY CreateFileKeeps DEF Start, Create

\* A process that serves would be the owner this one found dead.
LEMMA TakeOverKeeps ==
  ASSUME Inv, NEW p \in Procs, TakeOver(p)
  PROVE  Inv'
<1> USE Distinct, ServeStateAssumption DEF Inv, TakeOver, Goto, Change, Trusts, procVars, ports, history
<1>1. TypeOK' /\ CmdTyped'
  BY DEF TypeOK, CmdTyped, StoreHeld, Labels, Alive
<1>2. PortsHeld' /\ StoreHeld' /\ NamedWrote' /\ WinnerServed'
  BY DEF TypeOK, PortsHeld, StoreHeld, NamedWrote, WinnerServed
<1>3. LooksHold' /\ CommandLookHolds'
  BY DEF TypeOK, LooksHold, CommandLookHolds
<1>4. intact' => intact /\ file \in Procs \cup {Dead} /\ ~Alive(file)
  BY DEF LooksHold
<1>5. WinnerKept'
  <2>1. intact' => winner \notin store
    BY <1>4 DEF WinnerKept, StoreHeld, Alive, TypeOK
  <2> QED
    BY <2>1 DEF WinnerKept
<1>6. WinnerOwnsFile'
  <2>1. ASSUME intact', NEW q \in Procs, pc[q] = "serve" PROVE FALSE
    BY <1>4, <2>1 DEF WinnerOwnsFile, Alive
  <2>2. \A q \in Procs : pc'[q] = "serve" => pc[q] = "serve"
    BY DEF TypeOK
  <2> QED
    BY <2>1, <2>2 DEF WinnerOwnsFile
<1> QED
  BY <1>1, <1>2, <1>3, <1>5, <1>6

LEMMA CmdRemoveStaleKeeps ==
  ASSUME Inv, CmdRemoveStale
  PROVE  Inv'
<1> USE Distinct, ServeStateAssumption DEF Inv, CmdRemoveStale, CmdGoto, CmdUnchanged, Change, Trusts, procVars, ports, history
<1>1. TypeOK' /\ CmdTyped'
  BY DEF TypeOK, CmdTyped, StoreHeld, Alive
<1>2. PortsHeld' /\ StoreHeld' /\ NamedWrote' /\ WinnerServed'
  BY DEF TypeOK, PortsHeld, StoreHeld, NamedWrote, WinnerServed
<1>3. LooksHold' /\ CommandLookHolds'
  BY DEF TypeOK, CmdTyped, LooksHold, CommandLookHolds
<1>4. intact' => intact /\ file = cmd.pid /\ ~Alive(file)
  BY DEF CommandLookHolds
<1>5. WinnerKept'
  <2>1. intact' => winner \notin store
    BY <1>4 DEF WinnerKept, StoreHeld, Alive, TypeOK
  <2> QED
    BY <2>1 DEF WinnerKept
<1>6. WinnerOwnsFile'
  <2>1. ASSUME intact', NEW q \in Procs, pc[q] = "serve" PROVE FALSE
    BY <1>4, <2>1 DEF WinnerOwnsFile, Alive
  <2> QED
    BY <2>1 DEF WinnerOwnsFile
<1> QED
  BY <1>1, <1>2, <1>3, <1>5, <1>6

LEMMA CmdSpawnKeeps ==
  ASSUME Inv, CmdSpawn
  PROVE  Inv'
<1> USE Distinct, ServeStateAssumption DEF Inv
<1>1. PICK p \in Procs :
        /\ pc[p] = "new" /\ pc' = [pc EXCEPT ![p] = "create"]
        /\ cmd' = [cmd EXCEPT !.at = "health", !.pid = p]
        /\ UNCHANGED <<file, current, intact, store, stopping, bindLost, suppress, ports,
                       crashes, winner>>
  BY DEF CmdSpawn, Goto
<1> USE DEF ports
<1>2. file # p
  BY <1>1 DEF NamedWrote
<1>3. TypeOK' /\ CmdTyped'
  BY <1>1 DEF TypeOK, CmdTyped, StoreHeld, Labels, Alive
<1>4. PortsHeld' /\ StoreHeld' /\ NamedWrote' /\ WinnerServed'
  BY <1>1, <1>2 DEF TypeOK, PortsHeld, StoreHeld, NamedWrote, WinnerServed
<1>5. Alive(file)' <=> Alive(file)
  BY <1>1, <1>2 DEF TypeOK, Alive
<1>6. LooksHold' /\ CommandLookHolds'
  BY <1>1, <1>5 DEF TypeOK, CmdTyped, LooksHold, CommandLookHolds
<1>7. WinnerKept' /\ WinnerOwnsFile'
  BY <1>1 DEF TypeOK, WinnerKept, WinnerOwnsFile
<1> QED
  BY <1>3, <1>4, <1>6, <1>7

\* What a kill does to the rest, by a crash or by the command.
LEMMA KillKeeps ==
  ASSUME Inv, NEW p \in Procs, Alive(p), Kill(p),
         UNCHANGED <<file, current, intact, stopping, bindLost, suppress, winner>>
  PROVE  /\ pc' \in [Procs -> Labels] /\ store' \subseteq {q \in Procs : Alive(q)'}
         /\ proxy' # Free => proxy' \in Procs /\ pc'[proxy'] \in {"listenDash", "truncate", "rewrite", "serve"}
         /\ dash' # Free => dash' \in Procs /\ pc'[dash'] \in {"truncate", "rewrite", "serve", "shutDash"}
         /\ PortsHeld' /\ StoreHeld' /\ NamedWrote' /\ WinnerServed' /\ LooksHold'
         /\ WinnerKept' /\ WinnerOwnsFile'
         /\ \A q \in Procs : Alive(q)' => Alive(q)
<1> USE Distinct DEF Inv, Kill, Goto
<1>1. /\ pc' = [pc EXCEPT ![p] = "killed"] /\ pc' \in [Procs -> Labels]
      /\ store' = store \ {p}
  BY DEF TypeOK, Labels
<1>2. store' \subseteq {q \in Procs : Alive(q)'}
  BY <1>1 DEF TypeOK, Alive
<1>3. /\ proxy' # Free => proxy' \in Procs /\ pc'[proxy'] \in {"listenDash", "truncate", "rewrite", "serve"}
      /\ dash' # Free => dash' \in Procs /\ pc'[dash'] \in {"truncate", "rewrite", "serve", "shutDash"}
  BY DEF TypeOK
<1>4. PortsHeld' /\ StoreHeld' /\ NamedWrote' /\ WinnerServed'
  BY DEF TypeOK, PortsHeld, StoreHeld, NamedWrote, WinnerServed
<1>5. \A q \in Procs : Alive(q)' => Alive(q)
  BY <1>1 DEF TypeOK, Alive
<1>6. LooksHold'
  BY <1>1 DEF TypeOK, LooksHold, Alive
<1>7. WinnerKept' /\ WinnerOwnsFile'
  BY <1>1 DEF TypeOK, WinnerKept, WinnerOwnsFile
<1> QED
  BY <1>1, <1>2, <1>3, <1>4, <1>5, <1>6, <1>7

LEMMA CrashKeeps ==
  ASSUME Inv, NEW p \in Procs, Crash(p)
  PROVE  Inv'
<1> USE Distinct, ServeStateAssumption DEF Inv
<1>1. /\ Alive(p) /\ Kill(p) /\ UNCHANGED <<file, stopping, bindLost, suppress, cmd>>
      /\ UNCHANGED <<current, intact, winner>>
  BY DEF Crash, history
<1>2. crashes' \in 0..MaxCrashes
  <2>1. /\ crashes' = crashes + 1 /\ crashes < MaxCrashes
        /\ crashes \in 0..MaxCrashes /\ MaxCrashes \in Nat
    BY DEF Crash, TypeOK
  <2> QED
    BY <2>1
<1>3. TypeOK' /\ CmdTyped'
  BY <1>1, <1>2, KillKeeps DEF TypeOK, CmdTyped
<1>4. CommandLookHolds'
  BY <1>1, KillKeeps DEF TypeOK, CommandLookHolds, Alive
<1> QED
  BY <1>1, <1>3, <1>4, KillKeeps

LEMMA CmdHealthKeeps ==
  ASSUME Inv, CmdHealth
  PROVE  Inv'
<1> USE Distinct, ServeStateAssumption DEF Inv
<1>1. /\ UNCHANGED <<file, current, intact, stopping, bindLost, suppress, crashes, winner>>
      /\ cmd' \in {[cmd EXCEPT !.at = "done"], [cmd EXCEPT !.kind = "rollback", !.at = "spawn"]}
  BY DEF CmdHealth, CmdGoto
<1>2. CmdTyped' /\ cmd'.kind \in {"none", "shutdown", "restart", "restart --exe", "rollback"}
      /\ cmd'.pid = cmd.pid /\ cmd'.at \in {"done", "spawn"}
  BY <1>1 DEF CmdTyped, TypeOK
<1>3. CommandLookHolds'
  BY <1>2 DEF CommandLookHolds
<1>4. CASE UNCHANGED <<pc, store, ports>>
  <2>1. TypeOK'
    BY <1>1, <1>2, <1>4 DEF TypeOK, ports, Alive
  <2>2. PortsHeld' /\ StoreHeld' /\ NamedWrote' /\ WinnerServed'
    BY <1>1, <1>4 DEF PortsHeld, StoreHeld, NamedWrote, WinnerServed, ports
  <2>3. LooksHold' /\ WinnerKept' /\ WinnerOwnsFile'
    BY <1>1, <1>4 DEF LooksHold, WinnerKept, WinnerOwnsFile, Alive
  <2> QED
    BY <1>2, <1>3, <2>1, <2>2, <2>3
<1>5. CASE Alive(cmd.pid) /\ Kill(cmd.pid)
  <2>1. cmd.pid \in Procs
    BY <1>5 DEF Alive
  <2>2. TypeOK'
    BY <1>1, <1>2, <1>5, <2>1, KillKeeps DEF TypeOK
  <2> QED
    BY <1>1, <1>2, <1>3, <1>5, <2>1, <2>2, KillKeeps
<1> QED
  BY <1>4, <1>5 DEF CmdHealth

LEMMA InitHolds ==
  ASSUME Init
  PROVE  Inv
<1> USE Distinct, ServeStateAssumption DEF Init, Inv
<1>1. TypeOK /\ CmdTyped
  BY DEF TypeOK, CmdTyped, NoCmd, Labels
<1>2. PortsHeld /\ StoreHeld /\ NamedWrote /\ WinnerServed
  BY DEF PortsHeld, StoreHeld, NamedWrote, WinnerServed
<1>3. LooksHold /\ CommandLookHolds /\ WinnerKept /\ WinnerOwnsFile
  BY DEF LooksHold, CommandLookHolds, WinnerKept, WinnerOwnsFile
<1> QED
  BY <1>1, <1>2, <1>3

LEMMA NextKeeps ==
  ASSUME Inv, [Next]_vars
  PROVE  Inv'
<1>1. ASSUME NEW p \in Procs, Start(p) \/ Create(p) PROVE Inv'
  BY <1>1, StartKeeps
<1>2. ASSUME NEW p \in Procs, Encode(p) \/ ReadOld(p) \/ TakeOver(p) \/ OpenStore(p) PROVE Inv'
  BY <1>2, EncodeKeeps, ReadOldKeeps, TakeOverKeeps, OpenStoreKeeps
<1>3. ASSUME NEW p \in Procs, ListenProxy(p) \/ ListenDash(p) \/ Truncate(p) \/ Rewrite(p) PROVE Inv'
  BY <1>3, ListenProxyKeeps, ListenDashKeeps, TruncateKeeps, RewriteKeeps
<1>4. ASSUME NEW p \in Procs, ShutProxy(p) \/ ShutDash(p) \/ Join(p) \/ CloseStore(p) PROVE Inv'
  BY <1>4, ShutProxyKeeps, ShutDashKeeps, JoinKeeps, CloseStoreKeeps
<1>5. ASSUME NEW p \in Procs, RemoveLook(p) \/ Remove(p) \/ Interrupt(p) \/ Crash(p) PROVE Inv'
  BY <1>5, RemoveLookKeeps, RemoveKeeps, InterruptKeeps, CrashKeeps
<1>6. CASE RunCommand \/ CmdRead \/ CmdProbe \/ CmdPid \/ CmdRemoveStale
  BY <1>6, RunCommandKeeps, CmdReadKeeps, CmdProbeKeeps, CmdPidKeeps, CmdRemoveStaleKeeps
<1>7. CASE CmdPost \/ CmdWait \/ CmdSpawn \/ CmdHealth \/ CmdLeave
  BY <1>7, CmdPostKeeps, CmdWaitKeeps, CmdSpawnKeeps, CmdHealthKeeps, CmdLeaveKeeps
<1>8. CASE UNCHANGED vars
  <2> USE <1>8 DEF Inv, vars, procVars, ports, history
  <2>1. TypeOK' /\ CmdTyped'
    BY ZenonT(60) DEF TypeOK, CmdTyped, Alive
  <2>2. PortsHeld' /\ StoreHeld' /\ NamedWrote' /\ WinnerServed'
    BY DEF PortsHeld, StoreHeld, NamedWrote, WinnerServed
  <2>3. LooksHold' /\ CommandLookHolds' /\ WinnerKept' /\ WinnerOwnsFile'
    BY DEF LooksHold, CommandLookHolds, WinnerKept, WinnerOwnsFile, Alive
  <2> QED
    BY <2>1, <2>2, <2>3
<1> QED
  BY <1>1, <1>2, <1>3, <1>4, <1>5, <1>6, <1>7, <1>8 DEF Next, Step, CmdStep

LEMMA Invariant == Spec => []Inv
<1>1. Init => Inv
  BY InitHolds
<1>2. Inv /\ [Next]_vars => Inv'
  BY NextKeeps
<1> QED
  BY <1>1, <1>2, PTL DEF Spec

----------------------------------------------------------------------------
(* The theorems.                                                           *)

\* The type invariant, and that a port is held by the process that bound it.
THEOREM TypeCorrect == Spec => []TypeOK
<1>1. Inv => TypeOK
  BY DEF Inv
<1> QED
  BY <1>1, Invariant, PTL

\* However many processes start, race, drain and are killed: who serves is
\* who the file names, as long as nobody acted on a file that had changed.
THEOREM ServerIsNamed == Spec => []WinnerOwnsFile
<1>1. Inv => WinnerOwnsFile
  BY DEF Inv
<1> QED
  BY <1>1, Invariant, PTL

\* Under the same condition a file that is gone proves that the store of the
\* last server is closed.
THEOREM GoneMeansClosed == Spec => []FileGoneStoreClosed
<1>1. Inv => FileGoneStoreClosed
  BY Distinct DEF Inv, WinnerKept, FileGoneStoreClosed, TypeOK
<1> QED
  BY <1>1, Invariant, PTL

\* A process that ends by itself, with its binds won and its maintenance
\* joined, leaves no file that names it, whatever the others do.
THEOREM CleanExitRemoves == Spec => []CleanExitLeavesNoFile
<1>1. Inv => CleanExitLeavesNoFile
  BY DEF Inv, NamedWrote, CleanExitLeavesNoFile
<1> QED
  BY <1>1, Invariant, PTL

----------------------------------------------------------------------------
(* Reloads.  The property speaks of the moments between calls; the         *)
(* invariant says what each stage of a call that is alone has already      *)
(* brought about.                                                          *)

Stages == {"idle", "diff", "apply", "bootRetention", "bootHot", "answer"}

\* The variables are functions and records of the shape Init gives them.
Shaped ==
  /\ busy \in BOOLEAN
  /\ boot = [k \in Keys |-> boot[k]]
  /\ call = [x \in Calls |-> [at |-> call[x].at, next |-> call[x].next,
                              applied |-> call[x].applied, restart |-> call[x].restart]]
  /\ \A x \in Calls : call[x].at \in Stages

\* Nothing a call may still apply contradicts itself.
LoadedValid == \A x \in Calls : UnderWay(x) => Validate(call[x].next)

Alone == ~ busy => \A x, y \in Calls : UnderWay(x) /\ UnderWay(y) => x = y

\* Live and boot settings are those the last answered call loaded ...
InForce == \A k \in LiveKeys : live[k] = asked[k] /\ boot[k] = asked[k]

\* ... until a call applies its own, one after the other.
StageReached(x) ==
  /\ call[x].at \in {"diff", "apply"} => InForce
  /\ call[x].at \in {"bootRetention", "bootHot", "answer"} =>
       \A k \in LiveKeys : live[k] = call[x].next[k]
  /\ call[x].at \in {"bootHot", "answer"} => boot["RetentionDays"] = call[x].next["RetentionDays"]
  /\ call[x].at = "answer" => boot["HotDays"] = call[x].next["HotDays"]

Agreed ==
  ~ busy =>
    /\ (\A x \in Calls : ~ UnderWay(x)) => InForce
    /\ \A x \in Calls : StageReached(x)

\* The inductive invariant.
ReloadInv == Shaped /\ Validate(live) /\ LoadedValid /\ Alone /\ Agreed

----------------------------------------------------------------------------

LEMMA ReloadInitHolds == ReloadInit => ReloadInv
<1> SUFFICES ASSUME ReloadInit PROVE ReloadInv
  OBVIOUS
<1> USE DEF ReloadInit
<1>1. \A x \in Calls : call[x] = Waiting /\ call[x].at = "idle"
  BY DEF Waiting
<1>2. Shaped
  <2>1. boot = [k \in Keys |-> boot[k]]
    BY DEF LoadConfig, Overlay, Defaults
  <2>2. \A x \in Calls : call[x] = [at |-> call[x].at, next |-> call[x].next,
                                    applied |-> call[x].applied, restart |-> call[x].restart]
    BY DEF Waiting
  <2> QED
    BY <1>1, <2>1, <2>2 DEF Shaped, Stages
<1>3. Validate(live)
  BY DEF Validate, LiveKeys
<1>4. LoadedValid /\ Alone
  BY <1>1 DEF LoadedValid, Alone, UnderWay
<1>5. Agreed
  BY <1>1 DEF Agreed, InForce, StageReached
<1> QED
  BY <1>2, <1>3, <1>4, <1>5 DEF ReloadInv

\* What a step of call x does to the calls.
OnlyCall(x, c) == call' = [call EXCEPT ![x] = c]

\* A call that goes from one stage to another, with the same settings: it has to
\* show what its new stage says, when it is alone.
LEMMA StageKeeps ==
  ASSUME ReloadInv, NEW x \in Calls, UnderWay(x), busy' = busy,
         boot' = [k \in Keys |-> boot'[k]],
         Shaped', Validate(live)',
         \A y \in Calls \ {x} : call'[y] = call[y],
         UnderWay(x)' => call'[x].next = call[x].next,
         ~ busy => IF UnderWay(x)' THEN StageReached(x)' ELSE InForce'
  PROVE  ReloadInv'
<1>1. LoadedValid'
  BY DEF ReloadInv, LoadedValid, UnderWay, Validate
<1>2. Alone'
  BY DEF ReloadInv, Alone, UnderWay
<1>3. Agreed'
  <2> SUFFICES ASSUME ~ busy
               PROVE  /\ (\A y \in Calls : ~ UnderWay(y)') => InForce'
                      /\ \A y \in Calls : StageReached(y)'
    BY DEF Agreed
  <2>1. \A y \in Calls \ {x} : ~ UnderWay(y) /\ ~ UnderWay(y)'
    BY DEF ReloadInv, Alone, UnderWay
  <2>2. \A y \in Calls : ~ UnderWay(y)' => StageReached(y)'
    BY DEF UnderWay, StageReached
  <2> QED
    BY <2>1, <2>2
<1> QED
  BY <1>1, <1>2, <1>3 DEF ReloadInv

\* What a call record becomes.
LEMMA RecordStep ==
  ASSUME Shaped, NEW x \in Calls, NEW at \in Stages, NEW n, NEW a, NEW r,
         call' = [call EXCEPT ![x] = [at |-> at, next |-> n, applied |-> a, restart |-> r]],
         busy' \in BOOLEAN, boot' = [k \in Keys |-> boot'[k]]
  PROVE  /\ Shaped'
         /\ call'[x].at = at /\ call'[x].next = n
         /\ \A y \in Calls \ {x} : call'[y] = call[y]
<1> DEFINE c == [at |-> at, next |-> n, applied |-> a, restart |-> r]
           Whole(d) == [at |-> d.at, next |-> d.next, applied |-> d.applied, restart |-> d.restart]
<1>1. c.at = at /\ c.next = n /\ Whole(c) = c
  OBVIOUS
<1>2. call = [y \in Calls |-> Whole(call[y])] /\ \A y \in Calls : call[y].at \in Stages
  BY DEF Shaped
<1>3. call' = [call EXCEPT ![x] = c]
  OBVIOUS
<1> HIDE DEF c
<1>4. DOMAIN call = Calls /\ \A y \in Calls : call[y] = Whole(call[y])
  <2> HIDE DEF Whole
  <2> QED
    BY <1>2
<1>5. call'[x] = c /\ \A y \in Calls \ {x} : call'[y] = call[y]
  <2> HIDE DEF Whole
  <2> QED
    BY <1>2, <1>3
<1>6. call' = [y \in Calls |-> call'[y]]
  <2> HIDE DEF Whole
  <2> QED
    BY <1>2, <1>3
<1>7. \A y \in Calls : call'[y] = Whole(call'[y]) /\ call'[y].at \in Stages
  <2> HIDE DEF Whole
  <2> QED
    BY <1>1, <1>2, <1>4, <1>5
<1>8. call' = [y \in Calls |-> Whole(call'[y])]
  <2> HIDE DEF Whole
  <2> QED
    BY <1>6, <1>7
<1> QED
  BY <1>1, <1>5, <1>7, <1>8 DEF Shaped

\* The record of a call, with the fields a step does not name as they were.
LEMMA RecordWhole ==
  ASSUME Shaped, NEW x \in Calls
  PROVE  /\ call[x] = [at |-> call[x].at, next |-> call[x].next,
                       applied |-> call[x].applied, restart |-> call[x].restart]
         /\ \A at : [call[x] EXCEPT !.at = at]
                      = [at |-> at, next |-> call[x].next,
                         applied |-> call[x].applied, restart |-> call[x].restart]
<1>1. call[x] = [at |-> call[x].at, next |-> call[x].next,
                 applied |-> call[x].applied, restart |-> call[x].restart]
  BY DEF Shaped
<1>2. ASSUME NEW at
      PROVE  [call[x] EXCEPT !.at = at]
               = [at |-> at, next |-> call[x].next,
                  applied |-> call[x].applied, restart |-> call[x].restart]
  <2> DEFINE m == call[x].at  n == call[x].next  a == call[x].applied  r == call[x].restart
  <2>1. call[x] = [at |-> m, next |-> n, applied |-> a, restart |-> r]
    BY <1>1
  <2> HIDE DEF m, n, a, r
  <2>2. [call[x] EXCEPT !.at = at] = [at |-> at, next |-> n, applied |-> a, restart |-> r]
    BY <2>1
  <2> QED
    BY <2>2 DEF n, a, r
<1> QED
  BY <1>1, <1>2

\* A call that loaded a valid configuration is under way, and overlaps with every
\* other that is.
LEMMA LoadKeeps ==
  ASSUME ReloadInv, NEW x \in Calls, LoadAndValidate(x)
  PROVE  ReloadInv'
<1>1. Shaped /\ UNCHANGED <<boot, live, asked>> /\ ~ UnderWay(x)
      /\ busy' = (busy \/ \E y \in Calls \ {x} : UnderWay(y) /\ UnderWay(x)')
  BY DEF ReloadInv, LoadAndValidate, UnderWay
<1>2. busy' \in BOOLEAN /\ boot' = [k \in Keys |-> boot'[k]]
  BY <1>1 DEF Shaped
<1>3. CASE call' = call
  <2>1. Shaped' /\ LoadedValid' /\ Validate(live)'
    BY <1>1, <1>2, <1>3 DEF ReloadInv, Shaped, LoadedValid, UnderWay, Validate
  <2>2. Alone' /\ Agreed'
    <3>1. ~ busy' => ~ busy
      BY <1>1 DEF Shaped
    <3> QED
      BY <1>1, <1>3, <3>1 DEF ReloadInv, Alone, Agreed, UnderWay, InForce, StageReached
  <2> QED
    BY <2>1, <2>2 DEF ReloadInv
<1>4. CASE /\ Validate(LoadConfig(conf))
           /\ call' = [call EXCEPT ![x].at = "diff", ![x].next = LoadConfig(conf)]
  <2> DEFINE n == LoadConfig(conf)
             a == call[x].applied
             r == call[x].restart
  <2>1. call' = [call EXCEPT ![x] = [at |-> "diff", next |-> n, applied |-> a, restart |-> r]]
    <3>1. call[x] = [at |-> call[x].at, next |-> call[x].next, applied |-> a, restart |-> r]
      BY <1>1, RecordWhole
    <3>2. call' = [call EXCEPT ![x] = [call[x] EXCEPT !.at = "diff", !.next = n]]
      BY <1>1, <1>4 DEF Shaped
    <3> DEFINE m == call[x].at  l == call[x].next
    <3>3. call[x] = [at |-> m, next |-> l, applied |-> a, restart |-> r]
      BY <3>1
    <3> HIDE DEF m, l, n, a, r
    <3> DEFINE d == [call[x] EXCEPT !.at = "diff"]
    <3>4. d = [at |-> "diff", next |-> l, applied |-> a, restart |-> r]
      BY <3>3
    <3>5. call' = [call EXCEPT ![x] = [d EXCEPT !.next = n]]
      BY <3>2
    <3> HIDE DEF d
    <3>6. [d EXCEPT !.next = n] = [at |-> "diff", next |-> n, applied |-> a, restart |-> r]
      BY <3>4
    <3> QED
      BY <3>5, <3>6
  <2>2. Validate(n)
    BY <1>4
  <2> HIDE DEF n, a, r
  <2>3. Shaped' /\ call'[x].at = "diff" /\ call'[x].next = n
        /\ \A y \in Calls \ {x} : call'[y] = call[y]
    BY <1>1, <1>2, <2>1, RecordStep DEF Stages
  <2>4. LoadedValid'
    <3>1. Validate(call'[x].next)
      BY <2>2, <2>3
    <3>2. \A y \in Calls \ {x} : UnderWay(y)' => Validate(call'[y].next)
      BY <2>3 DEF ReloadInv, LoadedValid, UnderWay
    <3> QED
      BY <3>1, <3>2 DEF LoadedValid, Validate
  <2>5. Validate(live)'
    BY <1>1 DEF ReloadInv, Validate
  <2>6. ~ busy' => ~ busy /\ \A y \in Calls \ {x} : ~ UnderWay(y) /\ ~ UnderWay(y)'
    BY <1>1, <2>3 DEF Shaped, UnderWay
  <2>7. Alone'
    BY <2>6 DEF Alone
  <2>8. Agreed'
    <3> SUFFICES ASSUME ~ busy' PROVE InForce' /\ \A y \in Calls : StageReached(y)'
      BY DEF Agreed
    <3>1. InForce'
      BY <1>1, <2>6 DEF ReloadInv, Agreed, InForce
    <3>2. StageReached(x)'
      BY <2>3, <3>1 DEF StageReached
    <3>3. \A y \in Calls \ {x} : StageReached(y)'
      BY <2>6 DEF UnderWay, StageReached
    <3> QED
      BY <3>1, <3>2, <3>3
  <2> QED
    BY <2>3, <2>4, <2>5, <2>7, <2>8 DEF ReloadInv
<1> QED
  BY <1>3, <1>4 DEF LoadAndValidate

LEMMA DiffKeeps ==
  ASSUME ReloadInv, NEW x \in Calls, Diff(x)
  PROVE  ReloadInv'
<1> DEFINE differ == {k \in Keys : boot[k] # call[x].next[k]}
           at == IF differ \cap LiveKeys = {} THEN "answer" ELSE "apply"
           n == call[x].next
           a == differ \cap LiveKeys
           r == differ \ LiveKeys
<1>1. Shaped /\ UNCHANGED <<boot, live, asked, busy>> /\ call[x].at = "diff" /\ UnderWay(x)
  BY DEF ReloadInv, Diff, UnderWay
<1>2. call' = [call EXCEPT ![x] = [at |-> at, next |-> n, applied |-> a, restart |-> r]]
  <2>1. call' = [call EXCEPT ![x] = [call[x] EXCEPT !.applied = a, !.restart = r, !.at = at]]
    BY <1>1 DEF Diff, Shaped
  <2> DEFINE m == call[x].at  b == call[x].applied  s == call[x].restart
  <2>2. call[x] = [at |-> m, next |-> n, applied |-> b, restart |-> s]
    BY <1>1, RecordWhole
  <2> HIDE DEF m, b, s, n, a, r, at
  <2> DEFINE d == [call[x] EXCEPT !.applied = a]
             e == [d EXCEPT !.restart = r]
  <2>3. call' = [call EXCEPT ![x] = [e EXCEPT !.at = at]]
    BY <2>1
  <2>4. d = [at |-> m, next |-> n, applied |-> a, restart |-> s]
    BY <2>2
  <2> HIDE DEF d
  <2>5. e = [at |-> m, next |-> n, applied |-> a, restart |-> r]
    BY <2>4
  <2> HIDE DEF e
  <2>6. [e EXCEPT !.at = at] = [at |-> at, next |-> n, applied |-> a, restart |-> r]
    BY <2>5
  <2> QED
    BY <2>3, <2>6
<1>3. at \in Stages /\ at # "idle"
  BY DEF Stages
<1>4. at = "answer" => boot["RetentionDays"] = n["RetentionDays"] /\ boot["HotDays"] = n["HotDays"]
  BY DEF Keys, LiveKeys
<1>5. at \in {"apply", "answer"}
  OBVIOUS
<1> HIDE DEF at, a, r, differ
<1>6. busy' \in BOOLEAN /\ boot' = [k \in Keys |-> boot'[k]]
  BY <1>1 DEF Shaped
<1>7. Shaped' /\ call'[x].at = at /\ call'[x].next = call[x].next
      /\ \A y \in Calls \ {x} : call'[y] = call[y]
  BY <1>1, <1>2, <1>3, <1>6, RecordStep
<1>8. ~ busy => StageReached(x)'
  <2> SUFFICES ASSUME ~ busy PROVE StageReached(x)'
    OBVIOUS
  <2>1. InForce
    BY <1>1 DEF ReloadInv, Agreed, StageReached
  <2>2. at = "answer" => \A k \in LiveKeys : live[k] = n[k]
    BY <1>4, <2>1 DEF InForce, LiveKeys
  <2> QED
    BY <1>1, <1>4, <1>5, <1>7, <2>1, <2>2 DEF StageReached, InForce
<1>9. Validate(live)' /\ UnderWay(x)'
  BY <1>1, <1>3, <1>7 DEF ReloadInv, Validate, UnderWay
<1> QED
  BY <1>1, <1>6, <1>7, <1>8, <1>9, StageKeeps

LEMMA ApplyKeeps ==
  ASSUME ReloadInv, NEW x \in Calls, ApplyLive(x)
  PROVE  ReloadInv'
<1> DEFINE n == call[x].next
           a == call[x].applied
           r == call[x].restart
<1>1. /\ Shaped /\ UNCHANGED <<boot, asked, busy>> /\ UnderWay(x)
      /\ live' = [k \in LiveKeys |-> call[x].next[k]]
      /\ call' = [call EXCEPT ![x] = [call[x] EXCEPT !.at = "bootRetention"]]
  BY DEF ReloadInv, ApplyLive, UnderWay, Shaped
<1>2. call' = [call EXCEPT ![x] = [at |-> "bootRetention", next |-> n, applied |-> a, restart |-> r]]
  BY <1>1, RecordWhole
<1>3. Shaped /\ busy' \in BOOLEAN /\ boot' = [k \in Keys |-> boot'[k]]
  BY <1>1 DEF Shaped
<1>4. Shaped' /\ call'[x].at = "bootRetention" /\ call'[x].next = call[x].next
      /\ \A y \in Calls \ {x} : call'[y] = call[y]
  <2> HIDE DEF n, a, r
  <2>1. Shaped' /\ call'[x].at = "bootRetention" /\ call'[x].next = n
        /\ \A y \in Calls \ {x} : call'[y] = call[y]
    BY <1>2, <1>3, RecordStep DEF Stages
  <2> QED
    BY <2>1 DEF n
<1>5. StageReached(x)' /\ UnderWay(x)'
  BY <1>1, <1>4 DEF StageReached, UnderWay
<1>6. Validate(live)'
  <2>1. Validate(call[x].next)
    BY <1>1 DEF ReloadInv, LoadedValid
  <2>2. \A k \in LiveKeys : live'[k] = call[x].next[k]
    BY <1>1
  <2> QED
    BY <2>1, <2>2 DEF Validate, LiveKeys
<1> QED
  BY <1>1, <1>3, <1>4, <1>5, <1>6, StageKeeps

\* One field of the boot copy.
LEMMA SetBootKeeps ==
  ASSUME ReloadInv, NEW x \in Calls, BootRetention(x) \/ BootHot(x)
  PROVE  ReloadInv'
<1> DEFINE n == call[x].next
           a == call[x].applied
           r == call[x].restart
<1>1. PICK from \in {"bootRetention", "bootHot"}, key \in LiveKeys, to \in {"bootHot", "answer"} :
        /\ SetBoot(x, from, key, to)
        /\ from = "bootRetention" => key = "RetentionDays" /\ to = "bootHot"
        /\ from = "bootHot" => key = "HotDays" /\ to = "answer"
  BY DEF BootRetention, BootHot, LiveKeys
<1>2. /\ Shaped /\ UNCHANGED <<live, asked, busy>> /\ UnderWay(x) /\ call[x].at = from
      /\ boot' = [boot EXCEPT ![key] = call[x].next[key]]
      /\ call' = [call EXCEPT ![x] = [call[x] EXCEPT !.at = to]]
  BY <1>1 DEF ReloadInv, SetBoot, UnderWay, Shaped
<1>3. call' = [call EXCEPT ![x] = [at |-> to, next |-> n, applied |-> a, restart |-> r]]
  BY <1>2, RecordWhole
<1>4. Shaped /\ busy' \in BOOLEAN
  BY <1>2 DEF Shaped
<1>5. /\ boot' = [k \in Keys |-> boot'[k]] /\ boot'[key] = call[x].next[key]
      /\ \A k \in Keys \ {key} : boot'[k] = boot[k]
  <2>1. boot = [k \in Keys |-> boot[k]] /\ key \in Keys
    BY <1>2 DEF Shaped, Keys, LiveKeys
  <2> QED
    BY <1>2, <2>1
<1>6. Shaped' /\ call'[x].at = to /\ call'[x].next = call[x].next
      /\ \A y \in Calls \ {x} : call'[y] = call[y]
  <2> HIDE DEF n, a, r
  <2>1. Shaped' /\ call'[x].at = to /\ call'[x].next = n
        /\ \A y \in Calls \ {x} : call'[y] = call[y]
    <3>1. to \in Stages /\ boot' = [k \in Keys |-> boot'[k]]
      BY <1>5 DEF Stages
    <3> QED
      BY <1>3, <1>4, <3>1, RecordStep
  <2> QED
    BY <2>1 DEF n
<1>7. Validate(live)' /\ UnderWay(x)'
  BY <1>2, <1>6 DEF ReloadInv, Validate, UnderWay
<1>8. ~ busy => StageReached(x)'
  <2> SUFFICES ASSUME ~ busy PROVE StageReached(x)'
    OBVIOUS
  <2>1. StageReached(x)
    BY DEF ReloadInv, Agreed
  <2>2. \A k \in LiveKeys : live'[k] = call'[x].next[k]
    BY <1>2, <1>6, <2>1 DEF StageReached
  <2>3. boot'["RetentionDays"] = call[x].next["RetentionDays"]
    <3>1. CASE from = "bootRetention"
      BY <1>1, <1>5, <3>1
    <3>2. CASE from = "bootHot"
      BY <1>1, <1>2, <1>5, <2>1, <3>2 DEF StageReached, Keys
    <3> QED
      BY <3>1, <3>2
  <2>4. to = "answer" => boot'["HotDays"] = call[x].next["HotDays"]
    BY <1>1, <1>5
  <2> QED
    BY <1>6, <2>2, <2>3, <2>4 DEF StageReached
<1> QED
  BY <1>2, <1>5, <1>6, <1>7, <1>8, StageKeeps

LEMMA AnswerKeeps ==
  ASSUME ReloadInv, NEW x \in Calls, AnswerReload(x)
  PROVE  ReloadInv'
<1>1. /\ Shaped /\ UNCHANGED <<boot, live, busy>> /\ UnderWay(x) /\ call[x].at = "answer"
      /\ asked' = [k \in LiveKeys |-> call[x].next[k]]
      /\ call' = [call EXCEPT ![x] = Waiting]
  BY DEF ReloadInv, AnswerReload, UnderWay
<1>2. busy' \in BOOLEAN /\ boot' = [k \in Keys |-> boot'[k]]
  BY <1>1 DEF Shaped
<1>3. Shaped' /\ call'[x].at = "idle" /\ \A y \in Calls \ {x} : call'[y] = call[y]
  BY <1>1, <1>2, RecordStep DEF Stages, Waiting
<1>4. ~ busy => InForce'
  <2> SUFFICES ASSUME ~ busy PROVE InForce'
    OBVIOUS
  <2>1. StageReached(x)
    BY DEF ReloadInv, Agreed
  <2>2. \A k \in LiveKeys : live[k] = call[x].next[k] /\ boot[k] = call[x].next[k]
    BY <1>1, <2>1 DEF StageReached, LiveKeys
  <2> QED
    BY <1>1, <2>2 DEF InForce
<1>5. Validate(live)' /\ ~ UnderWay(x)'
  BY <1>1, <1>3 DEF ReloadInv, Validate, UnderWay
<1> QED
  BY <1>1, <1>2, <1>3, <1>4, <1>5, StageKeeps

LEMMA ReloadNextKeeps == ReloadInv /\ [ReloadNext]_reloadVars => ReloadInv'
<1> SUFFICES ASSUME ReloadInv, [ReloadNext]_reloadVars PROVE ReloadInv'
  OBVIOUS
<1>1. CASE EditFile \/ UNCHANGED reloadVars
  <2>1. UNCHANGED <<boot, live, call, busy, asked>>
    BY <1>1 DEF EditFile, reloadVars
  <2> QED
    BY <2>1 DEF ReloadInv, Shaped, Validate, LoadedValid, Alone, Agreed, UnderWay, InForce, StageReached
<1>2. ASSUME NEW x \in Calls,
             \/ LoadAndValidate(x) \/ Diff(x) \/ ApplyLive(x) \/ BootRetention(x)
             \/ BootHot(x) \/ AnswerReload(x)
      PROVE  ReloadInv'
  BY <1>2, LoadKeeps, DiffKeeps, ApplyKeeps, SetBootKeeps, AnswerKeeps
<1> QED
  BY <1>1, <1>2 DEF ReloadNext

\* However route calls overlap and the file changes under them, the settings in
\* force never contradict each other; and as long as no two calls overlapped, live
\* and boot settings are those the last answered call loaded.
THEOREM ReloadsTakeEffect == ReloadSpec => []ReloadTakesEffect
<1>1. ReloadInv => ReloadTakesEffect
  BY DEF ReloadInv, Agreed, InForce, ReloadTakesEffect
<1> QED
  BY <1>1, ReloadInitHolds, ReloadNextKeeps, PTL DEF ReloadSpec
=============================================================================
