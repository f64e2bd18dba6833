------------------------- MODULE TcpstatsProfiles -------------------------
(***************************************************************************)
(* The named filter profiles of the kernel module: the list under its sx   *)
(* lock, the device and the sysctl of each profile, the writes that        *)
(* create, update and delete profiles, opens of a profile's device, and    *)
(* the unloading of the module.                                            *)
(*                                                                         *)
(* What only the holder of the lock can see changes in one step; what an   *)
(* open can see without the lock (the device, its si_drv1, the filter)     *)
(* changes in steps of its own. A profile is a block of memory: a pointer  *)
(* to a block that was freed reads whatever is there.                      *)
(***************************************************************************)
EXTENDS Naturals, FiniteSets

CONSTANTS
  Admins,       \* threads in a sysctl handler
  Openers,      \* threads in tcpstats_profile_open
  Names,        \* profile names as they are written
  Stored,       \* what strlcpy keeps of a name in 32 bytes
  Filters,
  Blocks,       \* memory for profiles
  MaxProfiles,  \* TSF_MAX_PROFILES
  NoThread, NoBlock, NoName, NoFilter

ASSUME ProfilesAssumption ==
  /\ Stored \in [Names -> Names]
  /\ MaxProfiles \in Nat
  /\ NoThread \notin Admins /\ NoBlock \notin Blocks
  /\ NoName \notin Names /\ NoFilter \notin Filters

VARIABLES
  prof,         \* prof[b]: the struct tcpstats_profile in block b
  dev,          \* dev[b]: the cdev of that profile
  list,         \* tcpstats_profiles
  nprofiles,    \* tcpstats_nprofiles
  xlock,        \* the exclusive holder of tcpstats_profile_lock
  oid,          \* oid[n]: arg1 of the sysctl profiles.n, a pointer into a block
  call,         \* call[t]: where a handler is, and its locals
  opener,       \* opener[o]: where an open is, and its locals
  mod           \* the module's unloading; the profiles it has detached

listVars     == <<list, nprofiles, xlock>>
profilesVars == <<prof, dev, listVars, oid, call, opener, mod>>

\* A filter is copied in two halves, which need not be of the same filter.
Whole(f) == [i \in 1 .. 2 |-> f]

Idle  == [pc |-> "idle", name |-> NoName, f |-> NoFilter, arg |-> NoBlock, b |-> NoBlock]
Out   == [pc |-> "out", b |-> NoBlock, copy |-> Whole(NoFilter), same |-> FALSE]
Empty == [live |-> FALSE, name |-> NoName, str |-> NoFilter, filter |-> Whole(NoFilter)]

Profiles ==
  [live : BOOLEAN, name : Names \cup {NoName}, str : Filters \cup {NoFilter},
   filter : [1 .. 2 -> Filters \cup {NoFilter}]]
Calls ==
  [pc : {"idle", "set", "update", "delete", "got", "updating",
         "insert", "register", "destroy", "drain", "panic"},
   name : Names \cup {NoName}, f : Filters \cup {NoFilter},
   arg : Blocks \cup {NoBlock}, b : Blocks \cup {NoBlock}]
Opens ==
  [pc : {"out", "copying", "copied", "fault"}, b : Blocks \cup {NoBlock},
   copy : [1 .. 2 -> Filters \cup {NoFilter}], same : BOOLEAN]

ProfilesTypeOK ==
  /\ prof \in [Blocks -> Profiles]
  /\ dev \in [Blocks -> {"none", "new", "active", "draining"}]
  /\ list \subseteq Blocks /\ nprofiles \in Nat
  /\ xlock \in Admins \cup {NoThread}
  /\ oid \in [Names -> Blocks \cup {NoBlock}]
  /\ call \in [Admins -> Calls]
  /\ opener \in [Openers -> Opens]
  /\ mod \in [pc : {"loaded", "destroying", "removing", "unloaded"},
              doomed : SUBSET Blocks, victim : Blocks \cup {NoBlock}]

Init ==
  /\ prof = [b \in Blocks |-> Empty]
  /\ dev = [b \in Blocks |-> "none"]
  /\ list = {} /\ nprofiles = 0 /\ xlock = NoThread
  /\ oid = [n \in Names |-> NoBlock]
  /\ call = [t \in Admins |-> Idle]
  /\ opener = [o \in Openers |-> Out]
  /\ mod = [pc |-> "loaded", doomed |-> {}, victim |-> NoBlock]

---------------------------------------------------------------------------
(* tcpstats_profile_find, and the name a handler looks for: its own input, *)
(* or what arg1 points to by now.                                          *)

Find(n) == {b \in list : prof[b].name = n}
NameAt(b) == IF prof[b].live THEN {prof[b].name} ELSE Names
Wanted(t) == IF call[t].arg = NoBlock THEN {call[t].name} ELSE NameAt(call[t].arg)

Unlocked == xlock = NoThread
In(t, pcs) == call[t].pc \in pcs
Step(t, pc) == call' = [call EXCEPT ![t].pc = pc]
At(pc, b, f) == [Idle EXCEPT !.pc = pc, !.b = b, !.f = f]
Return(t) == call' = [call EXCEPT ![t] = Idle]

---------------------------------------------------------------------------
(* The sysctl writes and reads. A string that does not parse changes       *)
(* nothing here and is left out.                                           *)

MayCall(t) == In(t, {"idle"}) /\ mod.pc \in {"loaded", "destroying"}

Call(t, pc, n, f, arg) ==
  /\ MayCall(t)
  /\ call' = [call EXCEPT ![t] = [pc |-> pc, name |-> n, f |-> f, arg |-> arg, b |-> NoBlock]]
  /\ UNCHANGED <<prof, dev, listVars, oid, opener, mod>>

\* A write of "name filter", or of a name alone, to profile_set.
CallProfileSet(t) ==
  \E n \in Names :
    \/ \E f \in Filters : Call(t, "set", n, f, NoBlock)
    \/ Call(t, "delete", n, NoFilter, NoBlock)

\* A write to the sysctl of a profile: a filter, or nothing to delete it.
CallProfile(t) ==
  \E n \in {m \in Names : oid[m] # NoBlock} :
    \/ \E f \in Filters : Call(t, "update", NoName, f, oid[n])
    \/ Call(t, "delete", NoName, NoFilter, oid[n])

\* An open that overlaps an update of its profile copies no filter in particular.
Disturbed(b) ==
  opener' = [o \in Openers |->
               IF opener[o].b = b THEN [opener[o] EXCEPT !.copy = Out.copy, !.same = FALSE]
               ELSE opener[o]]

BeginUpdate(t) ==
  /\ In(t, {"set", "update"}) /\ Unlocked
  /\ \E n \in Wanted(t) : \E b \in Find(n) :
       /\ prof' = [prof EXCEPT ![b].filter[1] = call[t].f]
       /\ call' = [call EXCEPT ![t] = At("updating", b, call[t].f)]
       /\ Disturbed(b)
  /\ xlock' = t
  /\ UNCHANGED <<dev, list, nprofiles, oid, mod>>

\* Mutant: the string kept for readback is not replaced.
EndUpdateKeepsString(t) ==
  LET b == call[t].b IN
  /\ In(t, {"updating"})
  /\ prof' = [prof EXCEPT ![b].filter[2] = call[t].f]
  /\ Disturbed(b)
  /\ xlock' = NoThread /\ Return(t)
  /\ UNCHANGED <<dev, list, nprofiles, oid, mod>>

EndUpdate(t) ==
  LET b == call[t].b IN
  /\ In(t, {"updating"})
  /\ prof' = [prof EXCEPT ![b].filter[2] = call[t].f, ![b].str = call[t].f]
  /\ Disturbed(b)
  /\ xlock' = NoThread /\ Return(t)
  /\ UNCHANGED <<dev, list, nprofiles, oid, mod>>

\* Mutant: the way out at the limit leaves the lock held.
RefusedKeepsLock(t) ==
  /\ Unlocked
  /\ \E n \in Wanted(t) :
       /\ Find(n) = {}
       /\ \/ In(t, {"set"}) /\ nprofiles >= MaxProfiles /\ xlock' = t
          \/ In(t, {"update", "delete"}) /\ UNCHANGED xlock
  /\ Return(t)
  /\ UNCHANGED <<prof, dev, list, nprofiles, oid, opener, mod>>

\* Nothing to update or delete, or no room for another.
Refused(t) ==
  /\ Unlocked
  /\ \E n \in Wanted(t) :
       /\ Find(n) = {}
       /\ \/ In(t, {"set"}) /\ nprofiles >= MaxProfiles
          \/ In(t, {"update", "delete"})
  /\ Return(t)
  /\ UNCHANGED <<prof, dev, listVars, oid, opener, mod>>

NewName(t) == In(t, {"set"}) /\ Unlocked /\ Find(call[t].name) = {} /\ nprofiles < MaxProfiles
HasDevice(n) == \E c \in Blocks : dev[c] \in {"new", "active"} /\ prof[c].name = n

\* make_dev_credf() gives NULL; nobody else has seen the profile.
MakeDevFails(t) ==
  /\ NewName(t) /\ ~HasDevice(Stored[call[t].name])
  /\ Return(t)
  /\ UNCHANGED <<prof, dev, listVars, oid, opener, mod>>

\* Called without MAKEDEV_CHECKNAME, it takes a name in use for a bug and
\* stops the machine.
MakeDevPanics(t) ==
  /\ NewName(t) /\ HasDevice(Stored[call[t].name])
  /\ Step(t, "panic")
  /\ UNCHANGED <<prof, dev, listVars, oid, opener, mod>>

\* The device is there, and its si_drv1 is not yet set.
MakeDev(t) ==
  LET n == Stored[call[t].name]
      f == call[t].f
  IN
  /\ NewName(t) /\ ~HasDevice(n)
  /\ \E b \in {c \in Blocks : ~prof[c].live} :
       /\ prof' = [prof EXCEPT ![b] = [live |-> TRUE, name |-> n, str |-> f, filter |-> Whole(f)]]
       /\ dev' = [dev EXCEPT ![b] = "new"]
       /\ call' = [call EXCEPT ![t] = At("insert", b, NoFilter)]
  /\ xlock' = t
  /\ UNCHANGED <<list, nprofiles, oid, opener, mod>>

Insert(t) ==
  LET b == call[t].b IN
  /\ In(t, {"insert"})
  /\ dev' = [dev EXCEPT ![b] = "active"]
  /\ list' = list \cup {b} /\ nprofiles' = nprofiles + 1
  /\ xlock' = NoThread
  /\ Step(t, "register")
  /\ UNCHANGED <<prof, oid, opener, mod>>

\* The profile may be gone by now; a sysctl that exists under the name stays.
Register(t) ==
  /\ In(t, {"register"})
  /\ \E n \in NameAt(call[t].b) :
       oid' = [oid EXCEPT ![n] = IF @ = NoBlock THEN call[t].b ELSE @]
  /\ Return(t)
  /\ UNCHANGED <<prof, dev, listVars, opener, mod>>

\* Mutant: the counter is not taken back.
DetachUncounted(t) ==
  /\ In(t, {"delete"}) /\ Unlocked
  /\ \E n \in Wanted(t) : \E b \in Find(n) :
       /\ list' = list \ {b}
       /\ call' = [call EXCEPT ![t] = At("destroy", b, NoFilter)]
  /\ UNCHANGED <<prof, dev, nprofiles, xlock, oid, opener, mod>>

Detach(t) ==
  /\ In(t, {"delete"}) /\ Unlocked
  /\ \E n \in Wanted(t) : \E b \in Find(n) :
       /\ list' = list \ {b} /\ nprofiles' = nprofiles - 1
       /\ call' = [call EXCEPT ![t] = At("destroy", b, NoFilter)]
  /\ UNCHANGED <<prof, dev, xlock, oid, opener, mod>>

---------------------------------------------------------------------------
(* destroy_dev(): the name goes at once; it returns when no thread is in   *)
(* the device's methods.                                                   *)

Inside(b) == {o \in Openers : opener[o].b = b}

BeginDestroy(b) == dev' = [dev EXCEPT ![b] = "draining"]

\* Mutant: the profile is freed while opens are under way.
EndDestroyAtOnce(b) ==
  /\ dev' = [dev EXCEPT ![b] = "none"]
  /\ prof' = [prof EXCEPT ![b] = Empty]

EndDestroy(b) ==
  /\ Inside(b) = {}
  /\ dev' = [dev EXCEPT ![b] = "none"]
  /\ prof' = [prof EXCEPT ![b] = Empty]

DestroyDev(t) ==
  /\ In(t, {"destroy"})
  /\ BeginDestroy(call[t].b)
  /\ Step(t, "drain")
  /\ UNCHANGED <<prof, listVars, oid, opener, mod>>

FreeProfile(t) ==
  /\ In(t, {"drain"})
  /\ EndDestroy(call[t].b)
  /\ Return(t)
  /\ UNCHANGED <<listVars, oid, opener, mod>>

\* A read of profiles.<n>: found and copied out under the shared lock. arg1
\* does not change while the sysctl is there, so the wait for the lock is not
\* a step of its own.
ReadBack(t, n) ==
  /\ MayCall(t) /\ oid[n] # NoBlock /\ Unlocked
  /\ \E m \in NameAt(oid[n]) :
       \/ Find(m) = {} /\ call' = [call EXCEPT ![t] = At("got", NoBlock, NoFilter)]
       \/ \E b \in Find(m) : call' = [call EXCEPT ![t] = At("got", NoBlock, prof[b].str)]
  /\ UNCHANGED <<prof, dev, listVars, oid, opener, mod>>

ReadReturns(t) ==
  /\ In(t, {"got"})
  /\ Return(t)
  /\ UNCHANGED <<prof, dev, listVars, oid, opener, mod>>

HandlerStep(t) ==
  \/ BeginUpdate(t) \/ EndUpdate(t) \/ Refused(t)
  \/ MakeDevFails(t) \/ MakeDevPanics(t) \/ MakeDev(t) \/ Insert(t) \/ Register(t)
  \/ Detach(t) \/ DestroyDev(t) \/ FreeProfile(t)
  \/ ReadReturns(t)

---------------------------------------------------------------------------
(* tcpstats_profile_open: si_drv1 is looked at first, and the filter is    *)
(* copied without the lock.                                                *)

Updating(b) == \E t \in Admins : In(t, {"updating"}) /\ call[t].b = b

OpenBegins(o, b) ==
  /\ opener[o].pc = "out" /\ mod.pc # "unloaded"
  /\ \/ /\ dev[b] = "active"
        /\ opener' = [opener EXCEPT ![o] =
             [pc |-> "copying", b |-> b, same |-> ~Updating(b),
              copy |-> IF Updating(b) THEN Whole(NoFilter)
                       ELSE [Whole(NoFilter) EXCEPT ![1] = prof[b].filter[1]]]]
     \/ dev[b] = "new" /\ opener' = [opener EXCEPT ![o] = [Out EXCEPT !.pc = "fault", !.b = b]]
  /\ UNCHANGED <<prof, dev, listVars, oid, call, mod>>

OpenCopies(o) ==
  LET p == opener[o] IN
  /\ p.pc = "copying"
  /\ opener' = [opener EXCEPT
       ![o].copy[2] = IF p.same THEN prof[p.b].filter[2] ELSE NoFilter,
       ![o].pc = "copied"]
  /\ UNCHANGED <<prof, dev, listVars, oid, call, mod>>

\* With success, or a devfs_set_cdevpriv() that failed.
OpenReturns(o) ==
  /\ opener[o].pc = "copied"
  /\ opener' = [opener EXCEPT ![o] = Out]
  /\ UNCHANGED <<prof, dev, listVars, oid, call, mod>>

OpenStep(o) == OpenCopies(o) \/ OpenReturns(o)

---------------------------------------------------------------------------
(* MOD_UNLOAD: all profiles are detached, then destroyed one by one; only  *)
(* then are the sysctls removed, which waits for their handlers.           *)

UnloadDetaches ==
  /\ mod.pc = "loaded" /\ Unlocked
  /\ mod' = [mod EXCEPT !.pc = "destroying", !.doomed = list]
  /\ list' = {} /\ nprofiles' = nprofiles - Cardinality(list)
  /\ UNCHANGED <<prof, dev, xlock, oid, call, opener>>

UnloadDestroys ==
  /\ mod.pc = "destroying" /\ mod.victim = NoBlock
  /\ \E b \in mod.doomed :
       /\ BeginDestroy(b)
       /\ mod' = [mod EXCEPT !.doomed = @ \ {b}, !.victim = b]
  /\ UNCHANGED <<prof, listVars, oid, call, opener>>

UnloadFrees ==
  /\ mod.pc = "destroying" /\ mod.victim # NoBlock
  /\ EndDestroy(mod.victim)
  /\ mod' = [mod EXCEPT !.victim = NoBlock]
  /\ UNCHANGED <<listVars, oid, call, opener>>

UnloadRemoves ==
  /\ mod.pc = "destroying" /\ mod.doomed = {} /\ mod.victim = NoBlock
  /\ mod' = [mod EXCEPT !.pc = "removing"]
  /\ UNCHANGED <<prof, dev, listVars, oid, call, opener>>

UnloadEnds ==
  /\ mod.pc = "removing" /\ \A t \in Admins : In(t, {"idle"})
  /\ mod' = [mod EXCEPT !.pc = "unloaded"]
  /\ oid' = [n \in Names |-> NoBlock]
  /\ UNCHANGED <<prof, dev, listVars, call, opener>>

UnloadGoesOn == UnloadDestroys \/ UnloadFrees \/ UnloadRemoves \/ UnloadEnds

\* A page fault in the kernel stops the machine, and so does a panic.
Fault == \/ \E o \in Openers : opener[o].pc = "fault"
         \/ \E t \in Admins : In(t, {"panic"})

ProfilesNext ==
  /\ ~Fault
  /\ \/ \E t \in Admins : CallProfileSet(t) \/ CallProfile(t) \/ HandlerStep(t)
                           \/ \E n \in Names : ReadBack(t, n)
     \/ \E o \in Openers : OpenStep(o) \/ \E b \in Blocks : OpenBegins(o, b)
     \/ UnloadDetaches \/ UnloadGoesOn

ProfilesSpec == Init /\ [][ProfilesNext]_profilesVars

\* A thread in the kernel runs on; the sx lock lets every waiter in.
ProfilesFairSpec ==
  /\ ProfilesSpec
  /\ \A t \in Admins : SF_profilesVars(HandlerStep(t))
  /\ \A o \in Openers : WF_profilesVars(OpenStep(o))
  /\ WF_profilesVars(UnloadGoesOn)

---------------------------------------------------------------------------
\* The counter is the length of the list and within the limit, a name is on
\* the list once, and a profile on the list has its memory and its device,
\* whichever way profiles are created, deleted and detached by the unload
\* (tcp_statsdev.c:450-495, 697-745, 774-782).
ProfilesBalanced ==
  /\ nprofiles = Cardinality(list) /\ nprofiles <= MaxProfiles
  /\ \A b \in list : prof[b].live /\ dev[b] = "active"
  /\ \A b, c \in list : prof[b].name = prof[c].name => b = c

\* An open that found its profile keeps it to its end: the profile is not
\* freed, by a delete or the unload, and not given to another profile while
\* the open copies; and what it copies is the profile's filter, unless an
\* update came between (tcp_statsdev.c:379-393, 470-481, 784-788).
OpenSeesItsProfile ==
  \A o \in Openers :
    LET p == opener[o] IN
    p.pc \in {"copying", "copied"} =>
      /\ prof[p.b].live /\ dev[p.b] \in {"active", "draining"}
      /\ p.pc = "copied" /\ p.same => p.copy = Whole(prof[p.b].str)

\* "Read returns the current filter string" (tcp_statsdev.c:500), as long
\* as the profile the sysctl was made for is there: the string read from
\* profiles.<name> is that of the profile of the name and says which filter is
\* in force, and there is none only if the profile is being deleted.
ReadbackIsCurrent ==
  [][\A t \in Admins, n \in Names :
       ReadBack(t, n) /\ NameAt(oid[n]) = {n} =>
         IF Find(n) = {} THEN call'[t].f = NoFilter
         ELSE \A b \in Find(n) : prof[b].filter = Whole(call'[t].f)]_profilesVars

\* Every handler returns and an unload ends, whoever holds the lock and
\* whatever is open, unless an open went through a device that was not ready
\* or a device was made under a name in use (tcp_statsdev.c:476, 517-590,
\* 657-759, 1676).
HandlersReturn ==
  /\ \A t \in Admins : In(t, {"set", "update", "delete", "got"}) ~> In(t, {"idle"}) \/ Fault
  /\ mod.pc = "destroying" ~> mod.pc = "unloaded" \/ Fault
============================================================================
