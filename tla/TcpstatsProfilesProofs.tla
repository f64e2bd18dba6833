---------------------- MODULE TcpstatsProfilesProofs ----------------------
(***************************************************************************)
(* What holds of the profile list and of opens, for any number of          *)
(* administrators, openers, names, filters and profiles.                   *)
(*                                                                         *)
(* The invariant says who may touch a profile that is not on the list: the *)
(* handler that makes it, the one handler that detached it, or the unload; *)
(* that a name has one device at most; and that a profile nobody updates   *)
(* has the filter its string says.                                         *)
(***************************************************************************)
EXTENDS TcpstatsProfiles, FiniteSetTheorems, TLAPS

ListInv ==
  /\ IsFiniteSet(list) /\ nprofiles = Cardinality(list) /\ nprofiles <= MaxProfiles
  /\ \A b \in list : dev[b] = "active"

\* A device has its profile, and a name one device that can be opened.
DeviceInv ==
  /\ \A b \in Blocks : dev[b] # "none" => prof[b].live
  /\ \A b, c \in Blocks :
       dev[b] \in {"new", "active"} /\ dev[c] \in {"new", "active"}
         /\ prof[b].name = prof[c].name => b = c

\* The profile a handler makes, detached or updates, and who has the lock.
Owning == {"insert", "destroy", "drain"}
HandlerInv ==
  \A t \in Admins :
    /\ call[t].pc = "set" => call[t].name \in Names
    /\ call[t].pc \in Owning \cup {"updating"} => call[t].b \in Blocks
    /\ call[t].pc \in {"insert", "updating"} => xlock = t
    /\ call[t].pc = "insert" => nprofiles < MaxProfiles /\ dev[call[t].b] = "new"
    /\ call[t].pc = "destroy" => dev[call[t].b] = "active" /\ call[t].b \notin list
    /\ call[t].pc = "drain" => dev[call[t].b] = "draining"
    /\ call[t].pc = "updating" =>
         call[t].b \in list /\ prof[call[t].b].filter[1] = call[t].f

\* The profiles the unload has detached, and the one it is destroying.
UnloadInv ==
  /\ \A b \in mod.doomed : dev[b] = "active" /\ b \notin list
  /\ mod.victim # NoBlock => dev[mod.victim] = "draining"
  /\ mod.victim \notin mod.doomed

\* Of the handlers and the unload, one at most destroys a profile.
OneOwner ==
  \A t \in Admins : call[t].pc \in Owning =>
    /\ \A u \in Admins : call[u].pc \in Owning /\ call[u].b = call[t].b => u = t
    /\ call[t].b \notin mod.doomed /\ call[t].b # mod.victim

FilterInv ==
  \A b \in Blocks : prof[b].live /\ ~Updating(b) => prof[b].filter = Whole(prof[b].str)

\* What an open that no update has disturbed has copied so far.
OpenInv ==
  \A o \in Openers :
    opener[o].pc \in {"copying", "copied"} =>
      /\ opener[o].b \in Blocks /\ dev[opener[o].b] \in {"active", "draining"}
      /\ opener[o].same =>
           /\ ~Updating(opener[o].b)
           /\ opener[o].copy[1] = prof[opener[o].b].str
           /\ opener[o].pc = "copied" => opener[o].copy[2] = prof[opener[o].b].str

ProfilesInv ==
  /\ ProfilesTypeOK /\ ListInv /\ DeviceInv /\ HandlerInv /\ UnloadInv /\ OneOwner
  /\ FilterInv /\ OpenInv
---------------------------------------------------------------------------
(* The operators of the model.                                             *)

Text == Filters \cup {NoFilter}

LEMMA Constants ==
  /\ NoThread \notin Admins /\ NoBlock \notin Blocks /\ MaxProfiles \in Nat
  /\ Stored \in [Names -> Names]
  /\ Text = Filters \cup {NoFilter} /\ NoFilter \in Text
BY ProfilesAssumption DEF Text

\* What a handler that moves on keeps, and an idle one.
LEMMA CallsAre ==
  /\ Idle \in Calls /\ Idle.pc = "idle"
  /\ \A pc \in {"got", "updating", "insert", "destroy"}, b \in Blocks \cup {NoBlock}, f \in Text :
       /\ At(pc, b, f) \in Calls
       /\ At(pc, b, f).pc = pc /\ At(pc, b, f).b = b /\ At(pc, b, f).f = f
<1>1. Idle \in Calls /\ Idle.pc = "idle"
  BY DEF Idle, Calls
<1> SUFFICES ASSUME NEW pc \in {"got", "updating", "insert", "destroy"},
                    NEW b \in Blocks \cup {NoBlock}, NEW f \in Text
             PROVE  /\ At(pc, b, f) \in Calls
                    /\ At(pc, b, f).pc = pc /\ At(pc, b, f).b = b /\ At(pc, b, f).f = f
  BY <1>1
<1> DEFINE x == [Idle EXCEPT !.pc = pc]
           y == [x EXCEPT !.b = b]
<1>2. x \in Calls /\ x.pc = pc
  BY <1>1 DEF Calls
<1>3. At(pc, b, f) = [y EXCEPT !.f = f]
  BY DEF At
<1> HIDE DEF x
<1>4. y \in Calls /\ y.pc = pc /\ y.b = b
  BY <1>2 DEF Calls
<1> HIDE DEF y
<1> QED
  BY <1>3, <1>4 DEF Calls, Text

LEMMA ProfilesAre ==
  /\ Empty \in Profiles /\ ~Empty.live
  /\ Out \in Opens /\ Out.pc = "out"
BY DEF Empty, Out, Profiles, Opens, Whole

\* A filter of which both halves are of f.
LEMMA WholeIs ==
  ASSUME NEW x \in [1 .. 2 -> Text], NEW f \in Text
  PROVE  /\ x = Whole(f) <=> x[1] = f /\ x[2] = f
         /\ Whole(f) \in [1 .. 2 -> Text]
BY DEF Whole

\* The fields of a profile.
LEMMA ProfileFields ==
  ASSUME NEW p \in Profiles
  PROVE  /\ p.live \in BOOLEAN /\ p.name \in Names \cup {NoName} /\ p.str \in Text
         /\ p.filter \in [1 .. 2 -> Text]
BY DEF Profiles, Text

\* An update of one half of a filter, and of the string with it.
HalfSet(p, b, i, f) == [p EXCEPT ![b].filter[i] = f]
BothSet(p, b, i, f) == [p EXCEPT ![b].filter[i] = f, ![b].str = f]

LEMMA HalfIsSet ==
  ASSUME NEW p \in [Blocks -> Profiles], NEW b \in Blocks, NEW f \in Text, NEW i \in 1 .. 2
  PROVE  /\ HalfSet(p, b, i, f) \in [Blocks -> Profiles]
         /\ \A c \in Blocks :
              LET x == HalfSet(p, b, i, f)[c] IN
              /\ x.live = p[c].live /\ x.name = p[c].name /\ x.str = p[c].str
              /\ c # b => x.filter = p[c].filter
              /\ c = b => x.filter[i] = f
<1> DEFINE g == [p[b].filter EXCEPT ![i] = f]
           r == [p[b] EXCEPT !.filter = g]
<1>1. g \in [1 .. 2 -> Text] /\ g[i] = f
  BY ProfileFields
<1>2. r \in Profiles /\ r.live = p[b].live /\ r.name = p[b].name /\ r.str = p[b].str /\ r.filter = g
  BY <1>1 DEF Profiles, Text
<1>3. HalfSet(p, b, i, f) = [p EXCEPT ![b] = r]
  BY DEF HalfSet
<1> HIDE DEF r, g
<1>4. \A c \in Blocks : HalfSet(p, b, i, f)[c] = IF c = b THEN r ELSE p[c]
  BY <1>3
<1>5. HalfSet(p, b, i, f) \in [Blocks -> Profiles]
  BY <1>2, <1>3
<1> QED
  BY <1>1, <1>2, <1>4, <1>5

LEMMA BothAreSet ==
  ASSUME NEW p \in [Blocks -> Profiles], NEW b \in Blocks, NEW f \in Text, NEW i \in 1 .. 2
  PROVE  /\ BothSet(p, b, i, f) \in [Blocks -> Profiles]
         /\ \A c \in Blocks :
              LET x == BothSet(p, b, i, f)[c] IN
              /\ x.live = p[c].live /\ x.name = p[c].name
              /\ c # b => x.str = p[c].str /\ x.filter = p[c].filter
              /\ c = b => /\ x.str = f /\ x.filter[i] = f
                          /\ \A j \in (1 .. 2) \ {i} : x.filter[j] = p[b].filter[j]
<1> DEFINE g == [p[b].filter EXCEPT ![i] = f]
           m == [p[b] EXCEPT !.filter = g]
           r == [m EXCEPT !.str = f]
<1>1. /\ g \in [1 .. 2 -> Text] /\ g[i] = f
      /\ \A j \in (1 .. 2) \ {i} : g[j] = p[b].filter[j]
  BY ProfileFields
<1>2. r \in Profiles /\ r.live = p[b].live /\ r.name = p[b].name /\ r.str = f /\ r.filter = g
  <2> HIDE DEF g
  <2>1. m \in Profiles /\ m.live = p[b].live /\ m.name = p[b].name /\ m.filter = g
    BY <1>1 DEF Profiles, Text
  <2> HIDE DEF m
  <2> QED
    BY <2>1 DEF Profiles, Text
<1>3. BothSet(p, b, i, f) = [p EXCEPT ![b] = r]
  BY DEF BothSet
<1> HIDE DEF r, m, g
<1>4. \A c \in Blocks : BothSet(p, b, i, f)[c] = IF c = b THEN r ELSE p[c]
  BY <1>3
<1>5. BothSet(p, b, i, f) \in [Blocks -> Profiles]
  BY <1>2, <1>3
<1> QED
  BY <1>1, <1>2, <1>4, <1>5

---------------------------------------------------------------------------
(* Steps that only move a handler, and only between places where it has    *)
(* neither a profile nor the lock.                                         *)

Holding == Owning \cup {"updating"}

\* Who updates a profile.
LEMMA SameUpdating ==
  ASSUME NEW t \in Admins, NEW r, call \in [Admins -> Calls],
         call[t].pc # "updating", r.pc # "updating", call' = [call EXCEPT ![t] = r]
  PROVE  \A b : Updating(b)' <=> Updating(b)
BY DEF Updating, In

LEMMA HandlerMoves ==
  ASSUME ProfilesInv, NEW t \in Admins, NEW r \in Calls,
         call[t].pc \notin Holding, r.pc \notin Holding, r.pc = "set" => r.name \in Names,
         call' = [call EXCEPT ![t] = r], oid' \in [Names -> Blocks \cup {NoBlock}],
         UNCHANGED <<prof, dev, listVars, opener, mod>>
  PROVE  ProfilesInv'
<1> USE DEF listVars
<1>0. call \in [Admins -> Calls] /\ call' \in [Admins -> Calls]
  BY DEF ProfilesInv, ProfilesTypeOK
<1>1. \A u \in Admins : call'[u] = IF u = t THEN r ELSE call[u]
  BY <1>0
<1>2. \A b : Updating(b)' <=> Updating(b)
  BY <1>0, SameUpdating DEF Holding
<1>3. ProfilesTypeOK'
  BY <1>0 DEF ProfilesInv, ProfilesTypeOK
<1>4. ListInv' /\ DeviceInv' /\ UnloadInv'
  BY DEF ProfilesInv, ListInv, DeviceInv, UnloadInv
<1>5. HandlerInv'
  BY <1>1 DEF ProfilesInv, HandlerInv, Holding, Owning
<1>6. OneOwner'
  BY <1>1 DEF ProfilesInv, OneOwner, Holding, Owning
<1>7. FilterInv'
  BY <1>2 DEF ProfilesInv, FilterInv
<1>8. OpenInv'
  BY <1>2 DEF ProfilesInv, OpenInv
<1> QED
  BY <1>3, <1>4, <1>5, <1>6, <1>7, <1>8 DEF ProfilesInv

\* The calls and the end of a handler's work.
LEMMA CallsMove ==
  ASSUME ProfilesInv, NEW t \in Admins
  PROVE  /\ CallProfileSet(t) => ProfilesInv'
         /\ CallProfile(t) => ProfilesInv'
         /\ Refused(t) => ProfilesInv'
         /\ MakeDevFails(t) => ProfilesInv'
         /\ MakeDevPanics(t) => ProfilesInv'
         /\ Register(t) => ProfilesInv'
         /\ ReadReturns(t) => ProfilesInv'
         /\ \A n \in Names : ReadBack(t, n) => ProfilesInv'
<1> USE DEF Holding, Owning
<1>0. /\ call \in [Admins -> Calls] /\ oid \in [Names -> Blocks \cup {NoBlock}]
      /\ prof \in [Blocks -> Profiles] /\ list \subseteq Blocks
      /\ Idle \in Calls /\ Idle.pc = "idle"
  BY CallsAre DEF ProfilesInv, ProfilesTypeOK
<1>1. ASSUME NEW pc \in {"set", "update", "delete"}, NEW n \in Names \cup {NoName}, NEW f \in Text,
             NEW arg \in Blocks \cup {NoBlock}, pc = "set" => n \in Names, Call(t, pc, n, f, arg)
      PROVE  ProfilesInv'
  <2> DEFINE r == [pc |-> pc, name |-> n, f |-> f, arg |-> arg, b |-> NoBlock]
  <2>1. r \in Calls /\ r.pc = pc /\ r.name = n
    BY DEF Calls, Text
  <2>2. call' = [call EXCEPT ![t] = r] /\ call[t].pc = "idle"
    BY <1>1 DEF Call, MayCall, In
  <2>3. UNCHANGED <<prof, dev, listVars, oid, opener, mod>>
    BY <1>1 DEF Call
  <2> HIDE DEF r
  <2> QED
    BY <1>0, <1>1, <2>1, <2>2, <2>3, HandlerMoves
<1>2. CallProfileSet(t) => ProfilesInv'
  BY <1>1, Constants DEF CallProfileSet
<1>3. CallProfile(t) => ProfilesInv'
  <2> SUFFICES ASSUME NEW n \in Names, oid[n] # NoBlock,
                      \/ \E f \in Filters : Call(t, "update", NoName, f, oid[n])
                      \/ Call(t, "delete", NoName, NoFilter, oid[n])
               PROVE  ProfilesInv'
    BY DEF CallProfile
  <2>1. oid[n] \in Blocks \cup {NoBlock}
    BY <1>0
  <2> QED
    BY <1>1, <2>1, Constants
<1>4. Refused(t) => ProfilesInv'
  BY <1>0, HandlerMoves DEF Refused, Return, In
<1>5. MakeDevFails(t) => ProfilesInv'
  BY <1>0, HandlerMoves DEF MakeDevFails, NewName, Return, In
<1>9. MakeDevPanics(t) => ProfilesInv'
  <2> SUFFICES ASSUME MakeDevPanics(t)
               PROVE  ProfilesInv'
    OBVIOUS
  <2> DEFINE r == [call[t] EXCEPT !.pc = "panic"]
  <2>1. r \in Calls /\ r.pc = "panic" /\ call[t].pc = "set"
    BY <1>0 DEF Calls, MakeDevPanics, NewName, In
  <2>2. call' = [call EXCEPT ![t] = r]
    BY <1>0 DEF MakeDevPanics, Step
  <2>3. UNCHANGED <<prof, dev, listVars, oid, opener, mod>>
    BY DEF MakeDevPanics
  <2> HIDE DEF r
  <2> QED
    BY <1>0, <2>1, <2>2, <2>3, HandlerMoves
<1>6. Register(t) => ProfilesInv'
  <2> SUFFICES ASSUME Register(t)
               PROVE  ProfilesInv'
    OBVIOUS
  <2>1. call[t].b \in Blocks \cup {NoBlock}
    BY <1>0 DEF Calls
  <2>2. oid' \in [Names -> Blocks \cup {NoBlock}]
    BY <1>0, <2>1 DEF Register
  <2> QED
    BY <1>0, <2>2, HandlerMoves DEF Register, Return, In
<1>7. ReadReturns(t) => ProfilesInv'
  BY <1>0, HandlerMoves DEF ReadReturns, Return, In
<1>8. ASSUME NEW n \in Names, ReadBack(t, n)
      PROVE  ProfilesInv'
  <2>1. /\ call[t].pc = "idle"
        /\ UNCHANGED <<prof, dev, listVars, oid, opener, mod>>
    BY <1>8 DEF ReadBack, MayCall, In
  <2>2. \E f \in Text : call' = [call EXCEPT ![t] = At("got", NoBlock, f)]
    <3>1. \A m : \A b \in Find(m) : prof[b].str \in Text
      BY <1>0, ProfileFields DEF Find
    <3> QED
      BY <1>8, <3>1, Constants DEF ReadBack
  <2>3. PICK f \in Text : call' = [call EXCEPT ![t] = At("got", NoBlock, f)]
    BY <2>2
  <2>4. At("got", NoBlock, f) \in Calls /\ At("got", NoBlock, f).pc = "got"
    BY CallsAre
  <2> QED
    BY <1>0, <2>1, <2>3, <2>4, HandlerMoves
<1> QED
  BY <1>2, <1>3, <1>4, <1>5, <1>6, <1>7, <1>8, <1>9

---------------------------------------------------------------------------
(* An update of a profile, half by half.                                   *)

\* Opens of the profile no longer count as undisturbed.
LEMMA DisturbedIs ==
  ASSUME opener \in [Openers -> Opens], NEW b, Disturbed(b)
  PROVE  /\ opener' \in [Openers -> Opens]
         /\ \A o \in Openers :
              /\ opener'[o].pc = opener[o].pc /\ opener'[o].b = opener[o].b
              /\ opener[o].b = b => ~opener'[o].same
              /\ opener[o].b # b => opener'[o] = opener[o]
<1>1. \A o \in Openers : opener'[o] = IF opener[o].b = b
                                      THEN [opener[o] EXCEPT !.copy = Out.copy, !.same = FALSE]
                                      ELSE opener[o]
  BY DEF Disturbed
<1>2. \A p \in Opens :
        LET q == [p EXCEPT !.copy = Out.copy, !.same = FALSE] IN
        q \in Opens /\ q.pc = p.pc /\ q.b = p.b /\ ~q.same
  BY DEF Opens, Out, Whole
<1>3. opener' \in [Openers -> Opens]
  <2>1. \A o \in Openers : opener'[o] \in Opens
    BY <1>1, <1>2
  <2>2. opener' = [o \in Openers |-> opener'[o]]
    BY DEF Disturbed
  <2> QED
    BY <2>1, <2>2
<1> SUFFICES ASSUME NEW o \in Openers
             PROVE  /\ opener'[o].pc = opener[o].pc /\ opener'[o].b = opener[o].b
                    /\ opener[o].b = b => ~opener'[o].same
                    /\ opener[o].b # b => opener'[o] = opener[o]
  BY <1>3
<1>4. CASE opener[o].b = b
  <2>1. opener'[o] = [opener[o] EXCEPT !.copy = Out.copy, !.same = FALSE]
    BY <1>1, <1>4
  <2> QED
    BY <1>2, <1>4, <2>1
<1>5. CASE opener[o].b # b
  BY <1>1, <1>5
<1> QED
  BY <1>4, <1>5

LEMMA BeginUpdateKeeps ==
  ASSUME ProfilesInv, NEW t \in Admins, BeginUpdate(t)
  PROVE  ProfilesInv'
<1> USE DEF Owning
<1>0. ProfilesTypeOK
  BY DEF ProfilesInv
<1> DEFINE f == call[t].f
<1>1. PICK b \in list :
        /\ prof' = HalfSet(prof, b, 1, f)
        /\ call' = [call EXCEPT ![t] = At("updating", b, f)]
        /\ Disturbed(b)
  BY DEF BeginUpdate, HalfSet, Find
<1>2. /\ call[t].pc \in {"set", "update"} /\ xlock = NoThread /\ xlock' = t
      /\ UNCHANGED <<dev, list, nprofiles, oid, mod>>
  BY DEF BeginUpdate, Unlocked, In
<1>3. f \in Text /\ b \in Blocks
  BY <1>0 DEF ProfilesTypeOK, Calls, Text
<1> DEFINE r == At("updating", b, f)
<1>4. r \in Calls /\ r.pc = "updating" /\ r.b = b /\ r.f = f
  BY <1>3, CallsAre
<1> HIDE DEF f, r
<1>5. \A u \in Admins : call'[u] = IF u = t THEN r ELSE call[u]
  BY <1>0, <1>1 DEF ProfilesTypeOK, r
<1>6. /\ prof' \in [Blocks -> Profiles]
      /\ \A c \in Blocks :
           /\ prof'[c].live = prof[c].live /\ prof'[c].name = prof[c].name
           /\ prof'[c].str = prof[c].str
           /\ c # b => prof'[c].filter = prof[c].filter
           /\ c = b => prof'[c].filter[1] = f
  BY <1>0, <1>1, <1>3, HalfIsSet DEF ProfilesTypeOK
<1>7. /\ opener' \in [Openers -> Opens]
      /\ \A o \in Openers :
           /\ opener'[o].pc = opener[o].pc /\ opener'[o].b = opener[o].b
           /\ opener[o].b = b => ~opener'[o].same
           /\ opener[o].b # b => opener'[o] = opener[o]
  BY <1>0, <1>1, DisturbedIs DEF ProfilesTypeOK
<1>8. \A c : ~Updating(c) /\ (Updating(c)' <=> c = b)
  <2>1. \A u \in Admins : call[u].pc # "updating"
    BY <1>2, Constants DEF ProfilesInv, HandlerInv
  <2> QED
    BY <1>4, <1>5, <2>1 DEF Updating, In
<1>9. ProfilesTypeOK'
  <2>1. call' \in [Admins -> Calls]
    BY <1>0, <1>1, <1>4 DEF ProfilesTypeOK, r
  <2> QED
    BY <1>0, <1>2, <1>6, <1>7, <2>1 DEF ProfilesTypeOK
<1>10. ListInv' /\ UnloadInv'
  BY <1>2 DEF ProfilesInv, ListInv, UnloadInv
<1>11. DeviceInv'
  BY <1>2, <1>6 DEF ProfilesInv, DeviceInv
<1>12. HandlerInv'
  <2> SUFFICES ASSUME NEW u \in Admins
               PROVE  HandlerInv!(u)'
    BY DEF HandlerInv
  <2>1. CASE u = t
    BY <1>1, <1>2, <1>3, <1>4, <1>5, <1>6, <2>1
  <2>2. CASE u # t
    BY <1>2, <1>5, <2>2, Constants DEF ProfilesInv, HandlerInv
  <2> QED
    BY <2>1, <2>2
<1>13. OneOwner'
  BY <1>2, <1>4, <1>5 DEF ProfilesInv, OneOwner
<1>14. FilterInv'
  BY <1>6, <1>8 DEF ProfilesInv, FilterInv
<1>15. OpenInv'
  BY <1>2, <1>3, <1>6, <1>7, <1>8 DEF ProfilesInv, OpenInv
<1> QED
  BY <1>9, <1>10, <1>11, <1>12, <1>13, <1>14, <1>15 DEF ProfilesInv

LEMMA EndUpdateKeeps ==
  ASSUME ProfilesInv, NEW t \in Admins, EndUpdate(t)
  PROVE  ProfilesInv'
<1> USE DEF Owning
<1>0. ProfilesTypeOK
  BY DEF ProfilesInv
<1> DEFINE f == call[t].f
           b == call[t].b
<1>1. /\ prof' = BothSet(prof, b, 2, f)
      /\ call' = [call EXCEPT ![t] = Idle]
      /\ Disturbed(b)
  BY DEF EndUpdate, BothSet, Return
<1>2. /\ call[t].pc = "updating" /\ xlock' = NoThread
      /\ UNCHANGED <<dev, list, nprofiles, oid, mod>>
  BY DEF EndUpdate, In
<1>3. f \in Text /\ b \in Blocks /\ b \in list /\ prof[b].filter[1] = f /\ xlock = t
  BY <1>0, <1>2 DEF ProfilesTypeOK, Calls, Text, ProfilesInv, HandlerInv
<1>4. \A u \in Admins : u # t => call[u].pc \notin {"insert", "updating"}
  BY <1>3 DEF ProfilesInv, HandlerInv
<1>5. \A c : Updating(c) <=> c = b
  BY <1>2, <1>4 DEF Updating, In
<1> HIDE DEF f, b
<1>6. \A u \in Admins : call'[u] = IF u = t THEN Idle ELSE call[u]
  BY <1>0, <1>1 DEF ProfilesTypeOK
<1>7. /\ prof' \in [Blocks -> Profiles]
      /\ \A c \in Blocks :
           /\ prof'[c].live = prof[c].live /\ prof'[c].name = prof[c].name
           /\ c # b => prof'[c].str = prof[c].str /\ prof'[c].filter = prof[c].filter
           /\ c = b => /\ prof'[c].str = f /\ prof'[c].filter[2] = f
                       /\ prof'[c].filter[1] = prof[b].filter[1]
  BY <1>0, <1>1, <1>3, BothAreSet DEF ProfilesTypeOK
<1>8. /\ opener' \in [Openers -> Opens]
      /\ \A o \in Openers :
           /\ opener'[o].pc = opener[o].pc /\ opener'[o].b = opener[o].b
           /\ opener[o].b = b => ~opener'[o].same
           /\ opener[o].b # b => opener'[o] = opener[o]
  BY <1>0, <1>1, DisturbedIs DEF ProfilesTypeOK
<1>9. \A c : ~Updating(c)'
  BY <1>4, <1>6, CallsAre DEF Updating, In
<1>10. ProfilesTypeOK'
  <2>1. call' \in [Admins -> Calls]
    BY <1>0, <1>1, CallsAre DEF ProfilesTypeOK
  <2> QED
    BY <1>0, <1>2, <1>7, <1>8, <2>1 DEF ProfilesTypeOK
<1>11. ListInv' /\ UnloadInv'
  BY <1>2 DEF ProfilesInv, ListInv, UnloadInv
<1>12. DeviceInv'
  BY <1>2, <1>7 DEF ProfilesInv, DeviceInv
<1>13. HandlerInv'
  BY <1>2, <1>4, <1>6, CallsAre DEF ProfilesInv, HandlerInv
<1>14. OneOwner'
  BY <1>2, <1>6, CallsAre DEF ProfilesInv, OneOwner
<1>15. FilterInv'
  <2> SUFFICES ASSUME NEW c \in Blocks, prof'[c].live
               PROVE  prof'[c].filter = Whole(prof'[c].str)
    BY <1>9 DEF FilterInv
  <2>1. CASE c = b
    <3>1. prof'[c].filter \in [1 .. 2 -> Text]
      BY <1>7, ProfileFields
    <3> QED
      BY <1>3, <1>7, <2>1, <3>1, WholeIs
  <2>2. CASE c # b
    BY <1>5, <1>7, <2>2 DEF ProfilesInv, FilterInv
  <2> QED
    BY <2>1, <2>2
<1>16. OpenInv'
  BY <1>2, <1>3, <1>7, <1>8, <1>9 DEF ProfilesInv, OpenInv
<1> QED
  BY <1>10, <1>11, <1>12, <1>13, <1>14, <1>15, <1>16 DEF ProfilesInv

---------------------------------------------------------------------------
(* A new profile.                                                          *)

LEMMA MakeDevKeeps ==
  ASSUME ProfilesInv, NEW t \in Admins, MakeDev(t)
  PROVE  ProfilesInv'
<1> USE DEF Owning
<1>0. ProfilesTypeOK
  BY DEF ProfilesInv
<1> DEFINE n == Stored[call[t].name]
           f == call[t].f
           new == [live |-> TRUE, name |-> n, str |-> f, filter |-> Whole(f)]
<1>1. PICK b \in Blocks :
        /\ ~prof[b].live
        /\ prof' = [prof EXCEPT ![b] = new]
        /\ dev' = [dev EXCEPT ![b] = "new"]
        /\ call' = [call EXCEPT ![t] = At("insert", b, NoFilter)]
  BY DEF MakeDev
<1>2. /\ call[t].pc = "set" /\ xlock = NoThread /\ xlock' = t /\ nprofiles < MaxProfiles
      /\ ~HasDevice(n)
      /\ UNCHANGED <<list, nprofiles, oid, opener, mod>>
  BY DEF MakeDev, NewName, Unlocked, In
<1>3. /\ new \in Profiles /\ new.live /\ new.name = n /\ new.str = f
      /\ new.filter = Whole(f)
  <2>1. n \in Names
    BY <1>2, Constants DEF ProfilesInv, HandlerInv
  <2>2. f \in Text
    BY <1>0 DEF ProfilesTypeOK, Calls, Text
  <2> QED
    BY <2>1, <2>2 DEF Profiles, Whole, Text
<1> DEFINE r == At("insert", b, NoFilter)
<1>4. r \in Calls /\ r.pc = "insert" /\ r.b = b
  BY CallsAre, Constants
<1> HIDE DEF new, r
<1>5. \A u \in Admins : call'[u] = IF u = t THEN r ELSE call[u]
  BY <1>0, <1>1 DEF ProfilesTypeOK, r
<1>6. \A c \in Blocks : prof'[c] = IF c = b THEN new ELSE prof[c]
  BY <1>0, <1>1 DEF ProfilesTypeOK
<1>7. \A c \in Blocks : dev'[c] = IF c = b THEN "new" ELSE dev[c]
  BY <1>0, <1>1 DEF ProfilesTypeOK
<1>8. \A u \in Admins : call[u].pc \notin {"insert", "updating"}
  BY <1>2, Constants DEF ProfilesInv, HandlerInv
<1>9. \A c : ~Updating(c) /\ ~Updating(c)'
  BY <1>4, <1>5, <1>8 DEF Updating, In
<1>10. /\ dev[b] = "none" /\ b \notin list /\ b \notin mod.doomed /\ b # mod.victim
       /\ \A u \in Admins : call[u].pc \in Owning => call[u].b # b
  <2>1. dev[b] = "none"
    BY <1>1 DEF ProfilesInv, DeviceInv
  <2> QED
    BY <1>8, <2>1, Constants DEF ProfilesInv, ListInv, UnloadInv, HandlerInv
<1>11. ProfilesTypeOK'
  <2>1. call' \in [Admins -> Calls] /\ prof' \in [Blocks -> Profiles]
    BY <1>0, <1>1, <1>3, <1>4 DEF ProfilesTypeOK, r
  <2>2. dev' \in [Blocks -> {"none", "new", "active", "draining"}]
    BY <1>0, <1>1 DEF ProfilesTypeOK
  <2> QED
    BY <1>0, <1>2, <2>1, <2>2 DEF ProfilesTypeOK
<1>12. ListInv'
  BY <1>0, <1>2, <1>7, <1>10 DEF ProfilesInv, ListInv, ProfilesTypeOK
<1>13. DeviceInv'
  <2>1. \A c \in Blocks : dev[c] \in {"new", "active"} => prof[c].name # n
    BY <1>2 DEF HasDevice
  <2> HIDE DEF n
  <2>2. \A c \in Blocks : dev'[c] # "none" => prof'[c].live
    BY <1>3, <1>6, <1>7 DEF ProfilesInv, DeviceInv
  <2>3. \A c, d \in Blocks :
          dev'[c] \in {"new", "active"} /\ dev'[d] \in {"new", "active"}
            /\ prof'[c].name = prof'[d].name => c = d
    BY <1>3, <1>6, <1>7, <2>1 DEF ProfilesInv, DeviceInv
  <2> QED
    BY <2>2, <2>3 DEF DeviceInv
<1>14. HandlerInv'
  BY <1>1, <1>2, <1>4, <1>5, <1>7, <1>8, <1>10 DEF ProfilesInv, HandlerInv
<1>15. UnloadInv'
  BY <1>0, <1>2, <1>7, <1>10 DEF ProfilesInv, UnloadInv, ProfilesTypeOK
<1>16. OneOwner'
  BY <1>2, <1>4, <1>5, <1>10 DEF ProfilesInv, OneOwner
<1>17. FilterInv'
  BY <1>3, <1>6, <1>9 DEF ProfilesInv, FilterInv
<1>18. OpenInv'
  BY <1>2, <1>6, <1>7, <1>9, <1>10 DEF ProfilesInv, OpenInv
<1> QED
  BY <1>11, <1>12, <1>13, <1>14, <1>15, <1>16, <1>17, <1>18 DEF ProfilesInv

LEMMA InsertKeeps ==
  ASSUME ProfilesInv, NEW t \in Admins, Insert(t)
  PROVE  ProfilesInv'
<1> USE DEF Owning
<1>0. ProfilesTypeOK
  BY DEF ProfilesInv
<1> DEFINE b == call[t].b
           r == [call[t] EXCEPT !.pc = "register"]
<1>1. /\ call[t].pc = "insert" /\ dev' = [dev EXCEPT ![b] = "active"]
      /\ list' = list \cup {b} /\ nprofiles' = nprofiles + 1 /\ xlock' = NoThread
      /\ call' = [call EXCEPT ![t] = r]
      /\ UNCHANGED <<prof, oid, opener, mod>>
  BY DEF Insert, Step, In
<1>2. b \in Blocks /\ dev[b] = "new" /\ xlock = t /\ nprofiles < MaxProfiles
  BY <1>1 DEF ProfilesInv, HandlerInv
<1>3. r \in Calls /\ r.pc = "register" /\ r.b = b
  BY <1>0 DEF ProfilesTypeOK, Calls
<1>4. /\ b \notin list /\ b \notin mod.doomed /\ b # mod.victim
      /\ \A u \in Admins : u # t => /\ call[u].pc \notin {"insert", "updating"}
                                    /\ call[u].pc \in Owning => call[u].b # b
  BY <1>1, <1>2 DEF ProfilesInv, ListInv, HandlerInv, OneOwner
<1> HIDE DEF b, r
<1>5. \A u \in Admins : call'[u] = IF u = t THEN r ELSE call[u]
  BY <1>0, <1>1 DEF ProfilesTypeOK
<1>6. \A c \in Blocks : dev'[c] = IF c = b THEN "active" ELSE dev[c]
  BY <1>0, <1>1 DEF ProfilesTypeOK
<1>7. \A c : ~Updating(c) /\ ~Updating(c)'
  BY <1>1, <1>3, <1>4, <1>5 DEF Updating, In
<1>8. ProfilesTypeOK'
  <2>1. call' \in [Admins -> Calls] /\ dev' \in [Blocks -> {"none", "new", "active", "draining"}]
    BY <1>0, <1>1, <1>3 DEF ProfilesTypeOK
  <2> QED
    BY <1>0, <1>1, <1>2, <2>1 DEF ProfilesTypeOK
<1>9. ListInv'
  <2>1. IsFiniteSet(list') /\ Cardinality(list') = Cardinality(list) + 1
    BY <1>1, <1>4, FS_AddElement DEF ProfilesInv, ListInv
  <2>2. nprofiles' <= MaxProfiles
    BY <1>0, <1>1, <1>2, Constants DEF ProfilesTypeOK
  <2>3. \A c \in list' : dev'[c] = "active"
    BY <1>0, <1>1, <1>2, <1>6 DEF ProfilesInv, ListInv, ProfilesTypeOK
  <2> QED
    BY <1>1, <2>1, <2>2, <2>3 DEF ProfilesInv, ListInv
<1>10. DeviceInv'
  BY <1>1, <1>2, <1>6 DEF ProfilesInv, DeviceInv
<1>11. HandlerInv'
  BY <1>1, <1>2, <1>3, <1>4, <1>5, <1>6 DEF ProfilesInv, HandlerInv
<1>12. UnloadInv'
  BY <1>0, <1>1, <1>2, <1>4, <1>6 DEF ProfilesInv, UnloadInv, ProfilesTypeOK
<1>13. OneOwner'
  BY <1>1, <1>3, <1>5 DEF ProfilesInv, OneOwner
<1>14. FilterInv'
  BY <1>1, <1>7 DEF ProfilesInv, FilterInv
<1>15. OpenInv'
  BY <1>1, <1>6, <1>7 DEF ProfilesInv, OpenInv
<1> QED
  BY <1>8, <1>9, <1>10, <1>11, <1>12, <1>13, <1>14, <1>15 DEF ProfilesInv

---------------------------------------------------------------------------
(* A profile is taken off the list and destroyed.                          *)

LEMMA DetachKeeps ==
  ASSUME ProfilesInv, NEW t \in Admins, Detach(t)
  PROVE  ProfilesInv'
<1> USE DEF Owning
<1>0. ProfilesTypeOK
  BY DEF ProfilesInv
<1>1. PICK b \in list :
        /\ list' = list \ {b} /\ nprofiles' = nprofiles - 1
        /\ call' = [call EXCEPT ![t] = At("destroy", b, NoFilter)]
  BY DEF Detach, Find
<1>2. /\ call[t].pc = "delete" /\ xlock = NoThread
      /\ UNCHANGED <<prof, dev, xlock, oid, opener, mod>>
  BY DEF Detach, Unlocked, In
<1> DEFINE r == At("destroy", b, NoFilter)
<1>3. b \in Blocks /\ dev[b] = "active"
  BY <1>0 DEF ProfilesTypeOK, ProfilesInv, ListInv
<1>4. r \in Calls /\ r.pc = "destroy" /\ r.b = b
  BY <1>3, CallsAre, Constants
<1> HIDE DEF r
<1>5. \A u \in Admins : call'[u] = IF u = t THEN r ELSE call[u]
  BY <1>0, <1>1 DEF ProfilesTypeOK, r
<1>6. \A u \in Admins : /\ call[u].pc \notin {"insert", "updating"}
                        /\ call[u].pc \in Owning => call[u].b # b
  BY <1>2, <1>3, Constants DEF ProfilesInv, HandlerInv
<1>7. b \notin mod.doomed /\ b # mod.victim
  BY <1>3, Constants DEF ProfilesInv, UnloadInv
<1>8. \A c : ~Updating(c) /\ ~Updating(c)'
  BY <1>4, <1>5, <1>6 DEF Updating, In
<1>9. /\ IsFiniteSet(list') /\ Cardinality(list') = Cardinality(list) - 1
      /\ nprofiles' \in Nat /\ nprofiles' <= MaxProfiles /\ nprofiles' = Cardinality(list')
  <2>1. IsFiniteSet(list') /\ Cardinality(list') = Cardinality(list) - 1
    BY <1>1, FS_RemoveElement DEF ProfilesInv, ListInv
  <2>2. Cardinality(list') \in Nat
    BY <2>1, FS_CardinalityType
  <2> QED
    BY <1>0, <1>1, <2>1, <2>2, Constants DEF ProfilesInv, ListInv, ProfilesTypeOK
<1>10. ProfilesTypeOK'
  <2>1. call' \in [Admins -> Calls]
    BY <1>0, <1>1, <1>4 DEF ProfilesTypeOK, r
  <2> QED
    BY <1>0, <1>1, <1>2, <1>9, <2>1 DEF ProfilesTypeOK
<1>11. ListInv' /\ DeviceInv'
  BY <1>1, <1>2, <1>9 DEF ProfilesInv, ListInv, DeviceInv
<1>12. HandlerInv'
  BY <1>1, <1>2, <1>3, <1>4, <1>5, <1>6 DEF ProfilesInv, HandlerInv
<1>13. UnloadInv'
  BY <1>1, <1>2 DEF ProfilesInv, UnloadInv
<1>14. OneOwner'
  BY <1>2, <1>4, <1>5, <1>6, <1>7 DEF ProfilesInv, OneOwner
<1>15. FilterInv'
  BY <1>2, <1>8 DEF ProfilesInv, FilterInv
<1>16. OpenInv'
  BY <1>2, <1>8 DEF ProfilesInv, OpenInv
<1> QED
  BY <1>10, <1>11, <1>12, <1>13, <1>14, <1>15, <1>16 DEF ProfilesInv

LEMMA DestroyDevKeeps ==
  ASSUME ProfilesInv, NEW t \in Admins, DestroyDev(t)
  PROVE  ProfilesInv'
<1> USE DEF Owning
<1>0. ProfilesTypeOK
  BY DEF ProfilesInv
<1> DEFINE b == call[t].b
           r == [call[t] EXCEPT !.pc = "drain"]
<1>1. /\ call[t].pc = "destroy" /\ dev' = [dev EXCEPT ![b] = "draining"]
      /\ call' = [call EXCEPT ![t] = r]
      /\ UNCHANGED <<prof, listVars, oid, opener, mod>>
  BY DEF DestroyDev, BeginDestroy, Step, In
<1>2. b \in Blocks /\ dev[b] = "active" /\ b \notin list /\ b \notin mod.doomed /\ b # mod.victim
  BY <1>1 DEF ProfilesInv, HandlerInv, OneOwner
<1>3. r \in Calls /\ r.pc = "drain" /\ r.b = b
  BY <1>0 DEF ProfilesTypeOK, Calls
<1>4. \A u \in Admins : u # t /\ call[u].pc \in Owning => call[u].b # b
  BY <1>1 DEF ProfilesInv, OneOwner
<1>a. call[t].pc # "updating"
  BY <1>1
<1> HIDE DEF b, r
<1>5. \A u \in Admins : call'[u] = IF u = t THEN r ELSE call[u]
  BY <1>0, <1>1 DEF ProfilesTypeOK
<1>6. \A c \in Blocks : dev'[c] = IF c = b THEN "draining" ELSE dev[c]
  BY <1>0, <1>1 DEF ProfilesTypeOK
<1>7. \A c : Updating(c)' <=> Updating(c)
  BY <1>3, <1>5, <1>a DEF Updating, In
<1>8. ProfilesTypeOK'
  <2>1. call' \in [Admins -> Calls] /\ dev' \in [Blocks -> {"none", "new", "active", "draining"}]
    BY <1>0, <1>1, <1>3 DEF ProfilesTypeOK
  <2> QED
    BY <1>0, <1>1, <2>1 DEF ProfilesTypeOK, listVars
<1>9. ListInv'
  BY <1>0, <1>1, <1>2, <1>6 DEF ProfilesInv, ListInv, ProfilesTypeOK, listVars
<1>10. DeviceInv'
  BY <1>1, <1>2, <1>6 DEF ProfilesInv, DeviceInv
<1>11. HandlerInv'
  BY <1>1, <1>2, <1>3, <1>4, <1>5, <1>6 DEF ProfilesInv, HandlerInv, listVars
<1>12. UnloadInv'
  BY <1>0, <1>1, <1>2, <1>6 DEF ProfilesInv, UnloadInv, ProfilesTypeOK, listVars
<1>13. OneOwner'
  BY <1>1, <1>2, <1>3, <1>4, <1>5 DEF ProfilesInv, OneOwner
<1>14. FilterInv'
  BY <1>1, <1>7 DEF ProfilesInv, FilterInv
<1>15. OpenInv'
  BY <1>1, <1>6, <1>7 DEF ProfilesInv, OpenInv
<1> QED
  BY <1>8, <1>9, <1>10, <1>11, <1>12, <1>13, <1>14, <1>15 DEF ProfilesInv

\* The memory of a profile is freed when its device is gone.
LEMMA EndDestroyIs ==
  ASSUME ProfilesTypeOK, NEW b \in Blocks, EndDestroy(b)
  PROVE  /\ prof' \in [Blocks -> Profiles]
         /\ dev' \in [Blocks -> {"none", "new", "active", "draining"}]
         /\ \A c \in Blocks :
              /\ c # b => prof'[c] = prof[c] /\ dev'[c] = dev[c]
              /\ c = b => ~prof'[c].live /\ dev'[c] = "none"
         /\ \A o \in Openers : opener[o].b # b
BY ProfilesAre DEF ProfilesTypeOK, EndDestroy, Inside

LEMMA FreeProfileKeeps ==
  ASSUME ProfilesInv, NEW t \in Admins, FreeProfile(t)
  PROVE  ProfilesInv'
<1> USE DEF Owning
<1>0. ProfilesTypeOK
  BY DEF ProfilesInv
<1> DEFINE b == call[t].b
<1>1. /\ call[t].pc = "drain" /\ EndDestroy(b)
      /\ call' = [call EXCEPT ![t] = Idle]
      /\ UNCHANGED <<listVars, oid, opener, mod>>
  BY DEF FreeProfile, Return, In
<1>2. b \in Blocks /\ dev[b] = "draining" /\ b \notin mod.doomed /\ b # mod.victim
  BY <1>1 DEF ProfilesInv, HandlerInv, OneOwner
<1>3. \A u \in Admins : u # t /\ call[u].pc \in Owning => call[u].b # b
  BY <1>1 DEF ProfilesInv, OneOwner
<1>a. call[t].pc # "updating"
  BY <1>1
<1> HIDE DEF b
<1>4. \A u \in Admins : call'[u] = IF u = t THEN Idle ELSE call[u]
  BY <1>0, <1>1 DEF ProfilesTypeOK
<1>5. /\ prof' \in [Blocks -> Profiles]
      /\ dev' \in [Blocks -> {"none", "new", "active", "draining"}]
      /\ \A c \in Blocks :
           /\ c # b => prof'[c] = prof[c] /\ dev'[c] = dev[c]
           /\ c = b => ~prof'[c].live /\ dev'[c] = "none"
      /\ \A o \in Openers : opener[o].b # b
  BY <1>0, <1>1, <1>2, EndDestroyIs
<1>6. \A c : Updating(c)' <=> Updating(c)
  BY <1>4, <1>a, CallsAre DEF Updating, In
<1>b. b \notin list
  BY <1>2 DEF ProfilesInv, ListInv
<1>7. ProfilesTypeOK'
  <2>1. call' \in [Admins -> Calls]
    BY <1>0, <1>1, CallsAre DEF ProfilesTypeOK
  <2> QED
    BY <1>0, <1>1, <1>5, <2>1 DEF ProfilesTypeOK, listVars
<1>8. ListInv'
  BY <1>0, <1>1, <1>5, <1>b DEF ProfilesInv, ListInv, ProfilesTypeOK, listVars
<1>9. DeviceInv'
  BY <1>5 DEF ProfilesInv, DeviceInv
<1>10. HandlerInv'
  BY <1>0, <1>1, <1>3, <1>4, <1>5, <1>b, CallsAre DEF ProfilesInv, HandlerInv, listVars, ProfilesTypeOK
<1>11. UnloadInv'
  <2>1. \A c \in mod.doomed : c \in Blocks /\ c # b
    BY <1>0, <1>2 DEF ProfilesTypeOK
  <2>2. mod.victim # NoBlock => mod.victim \in Blocks /\ mod.victim # b
    BY <1>0, <1>2 DEF ProfilesTypeOK
  <2> QED
    BY <1>1, <1>5, <2>1, <2>2 DEF ProfilesInv, UnloadInv, listVars
<1>12. OneOwner'
  BY <1>1, <1>4, CallsAre DEF ProfilesInv, OneOwner
<1>13. FilterInv'
  BY <1>5, <1>6 DEF ProfilesInv, FilterInv
<1>14. OpenInv'
  BY <1>1, <1>5, <1>6 DEF ProfilesInv, OpenInv
<1> QED
  BY <1>7, <1>8, <1>9, <1>10, <1>11, <1>12, <1>13, <1>14 DEF ProfilesInv

---------------------------------------------------------------------------
(* Opens: only the open itself moves.                                      *)

LEMMA OpenMoves ==
  ASSUME ProfilesInv, NEW o \in Openers, NEW r \in Opens,
         opener' = [opener EXCEPT ![o] = r],
         UNCHANGED <<prof, dev, listVars, oid, call, mod>>,
         r.pc \in {"copying", "copied"} =>
           /\ r.b \in Blocks /\ dev[r.b] \in {"active", "draining"}
           /\ r.same => /\ ~Updating(r.b) /\ r.copy[1] = prof[r.b].str
                        /\ r.pc = "copied" => r.copy[2] = prof[r.b].str
  PROVE  ProfilesInv'
<1>0. ProfilesTypeOK
  BY DEF ProfilesInv
<1>1. \A p \in Openers : opener'[p] = IF p = o THEN r ELSE opener[p]
  BY <1>0 DEF ProfilesTypeOK
<1>2. \A c : Updating(c)' <=> Updating(c)
  BY DEF Updating, In
<1>3. ProfilesTypeOK'
  BY <1>0 DEF ProfilesTypeOK, listVars
<1>4. OpenInv'
  BY <1>1, <1>2 DEF ProfilesInv, OpenInv
<1>5. ListInv' /\ DeviceInv' /\ HandlerInv' /\ UnloadInv' /\ OneOwner'
  BY DEF ProfilesInv, ListInv, DeviceInv, HandlerInv, UnloadInv, OneOwner, listVars
<1>6. FilterInv'
  BY <1>2 DEF ProfilesInv, FilterInv
<1> QED
  BY <1>3, <1>4, <1>5, <1>6 DEF ProfilesInv

\* A profile nobody updates has the filter of its string in both halves.
LEMMA SteadyFilter ==
  ASSUME ProfilesInv, NEW b \in Blocks, dev[b] # "none", ~Updating(b)
  PROVE  \A i \in 1 .. 2 : prof[b].filter[i] = prof[b].str
<1>1. prof[b].filter = Whole(prof[b].str)
  BY DEF ProfilesInv, DeviceInv, FilterInv
<1>2. \A i \in 1 .. 2 : Whole(prof[b].str)[i] = prof[b].str
  BY DEF Whole
<1> QED
  BY <1>1, <1>2

LEMMA OpenBeginsKeeps ==
  ASSUME ProfilesInv, NEW o \in Openers, NEW b \in Blocks, OpenBegins(o, b)
  PROVE  ProfilesInv'
<1>0. ProfilesTypeOK
  BY DEF ProfilesInv
<1>1. UNCHANGED <<prof, dev, listVars, oid, call, mod>>
  BY DEF OpenBegins
<1>2. ASSUME dev[b] = "active",
             opener' = [opener EXCEPT ![o] =
               [pc |-> "copying", b |-> b, same |-> ~Updating(b),
                copy |-> IF Updating(b) THEN Whole(NoFilter)
                         ELSE [Whole(NoFilter) EXCEPT ![1] = prof[b].filter[1]]]]
      PROVE  ProfilesInv'
  <2> DEFINE x == IF Updating(b) THEN Whole(NoFilter)
                  ELSE [Whole(NoFilter) EXCEPT ![1] = prof[b].filter[1]]
             y == ~Updating(b)
             r == [pc |-> "copying", b |-> b, same |-> y, copy |-> x]
  <2>1. prof[b].filter[1] \in Text
    BY <1>0, ProfileFields DEF ProfilesTypeOK
  <2>2. x \in [1 .. 2 -> Text] /\ (y => x[1] = prof[b].filter[1])
    BY <2>1, Constants DEF Whole
  <2>3. y \in BOOLEAN /\ (y => ~Updating(b))
    OBVIOUS
  <2>4. opener' = [opener EXCEPT ![o] = r]
    BY <1>2
  <2> HIDE DEF x, y
  <2>5. r \in Opens /\ r.pc = "copying" /\ r.b = b /\ r.same = y /\ r.copy = x
    BY <2>2, <2>3 DEF Opens, Text
  <2> HIDE DEF r
  <2>6. r.same => ~Updating(r.b) /\ r.copy[1] = prof[r.b].str
    BY <1>2, <2>2, <2>3, <2>5, SteadyFilter
  <2> QED
    BY <1>1, <1>2, <2>4, <2>5, <2>6, OpenMoves
<1>3. ASSUME opener' = [opener EXCEPT ![o] = [Out EXCEPT !.pc = "fault", !.b = b]]
      PROVE  ProfilesInv'
  <2> DEFINE r == [Out EXCEPT !.pc = "fault", !.b = b]
  <2>1. r \in Opens /\ r.pc = "fault"
    BY ProfilesAre DEF Opens
  <2>2. opener' = [opener EXCEPT ![o] = r]
    BY <1>3
  <2> HIDE DEF r
  <2> QED
    BY <1>1, <2>1, <2>2, OpenMoves
<1> QED
  BY <1>2, <1>3 DEF OpenBegins

LEMMA OpenStepKeeps ==
  ASSUME ProfilesInv, NEW o \in Openers, OpenStep(o)
  PROVE  ProfilesInv'
<1>0. ProfilesTypeOK /\ opener[o] \in Opens
  BY DEF ProfilesInv, ProfilesTypeOK
<1>1. CASE OpenCopies(o)
  <2> DEFINE p == opener[o]
             g == IF p.same THEN prof[p.b].filter[2] ELSE NoFilter
             x == [p.copy EXCEPT ![2] = g]
             r == [[p EXCEPT !.copy = x] EXCEPT !.pc = "copied"]
  <2>1. p.pc = "copying" /\ UNCHANGED <<prof, dev, listVars, oid, call, mod>>
    BY <1>1 DEF OpenCopies
  <2>2. opener' = [opener EXCEPT ![o] = r]
    BY <1>1 DEF OpenCopies
  <2>3. /\ p.b \in Blocks /\ dev[p.b] \in {"active", "draining"}
        /\ p.same => ~Updating(p.b) /\ p.copy[1] = prof[p.b].str
    BY <2>1 DEF ProfilesInv, OpenInv
  <2>4. p.copy \in [1 .. 2 -> Text] /\ p.same \in BOOLEAN
    BY <1>0 DEF Opens, Text
  <2>5. g \in Text /\ (p.same => g = prof[p.b].str)
    BY <1>0, <2>3, ProfileFields, SteadyFilter, Constants DEF ProfilesTypeOK
  <2> HIDE DEF g
  <2>6. x \in [1 .. 2 -> Text] /\ x[1] = p.copy[1] /\ x[2] = g
    BY <2>4, <2>5
  <2> HIDE DEF x
  <2>7. r \in Opens /\ r.pc = "copied" /\ r.b = p.b /\ r.same = p.same /\ r.copy = x
    BY <1>0, <2>6 DEF Opens, Text
  <2> HIDE DEF r, p
  <2> QED
    BY <2>1, <2>2, <2>3, <2>5, <2>6, <2>7, OpenMoves
<1>2. CASE OpenReturns(o)
  BY <1>2, ProfilesAre, OpenMoves DEF OpenReturns
<1> QED
  BY <1>1, <1>2 DEF OpenStep

---------------------------------------------------------------------------
(* The unload.                                                             *)

LEMMA UnloadDetachesKeeps ==
  ASSUME ProfilesInv, UnloadDetaches
  PROVE  ProfilesInv'
<1> USE DEF Owning
<1>0. ProfilesTypeOK
  BY DEF ProfilesInv
<1>1. /\ mod' = [mod EXCEPT !.pc = "destroying", !.doomed = list]
      /\ list' = {} /\ nprofiles' = nprofiles - Cardinality(list) /\ xlock = NoThread
      /\ UNCHANGED <<prof, dev, xlock, oid, call, opener>>
  BY DEF UnloadDetaches, Unlocked
<1>2. mod'.doomed = list /\ mod'.victim = mod.victim
  BY <1>0, <1>1 DEF ProfilesTypeOK
<1>3. \A c : Updating(c)' <=> Updating(c)
  BY <1>1 DEF Updating, In
<1>4. /\ nprofiles' = 0 /\ nprofiles' <= MaxProfiles
      /\ IsFiniteSet(list') /\ Cardinality(list') = 0
  BY <1>0, <1>1, FS_EmptySet, Constants DEF ProfilesInv, ListInv, ProfilesTypeOK
<1>5. ProfilesTypeOK'
  <2>1. mod' \in [pc : {"loaded", "destroying", "removing", "unloaded"},
                  doomed : SUBSET Blocks, victim : Blocks \cup {NoBlock}]
    BY <1>0, <1>1 DEF ProfilesTypeOK
  <2>2. list' \subseteq Blocks /\ nprofiles' \in Nat
    BY <1>1, <1>4
  <2> QED
    BY <1>0, <1>1, <2>1, <2>2 DEF ProfilesTypeOK
<1>6. ListInv'
  BY <1>1, <1>4 DEF ListInv
<1>7. DeviceInv'
  BY <1>1 DEF ProfilesInv, DeviceInv
<1>8. HandlerInv'
  <2>1. \A u \in Admins : call[u].pc \notin {"insert", "updating"}
    BY <1>1, Constants DEF ProfilesInv, HandlerInv
  <2> QED
    BY <1>1, <2>1 DEF ProfilesInv, HandlerInv
<1>9. UnloadInv'
  <2>1. mod.victim # NoBlock => dev[mod.victim] = "draining" /\ mod.victim \notin list
    BY DEF ProfilesInv, UnloadInv, ListInv
  <2>2. NoBlock \notin list
    BY <1>0, Constants DEF ProfilesTypeOK
  <2> QED
    BY <1>1, <1>2, <2>1, <2>2 DEF ProfilesInv, UnloadInv, ListInv
<1>10. OneOwner'
  <2>1. \A u \in Admins : call[u].pc \in Owning => call[u].b \notin list
    BY DEF ProfilesInv, HandlerInv, ListInv
  <2> QED
    BY <1>1, <1>2, <2>1 DEF ProfilesInv, OneOwner
<1>11. FilterInv' /\ OpenInv'
  BY <1>1, <1>3 DEF ProfilesInv, FilterInv, OpenInv
<1> QED
  BY <1>5, <1>6, <1>7, <1>8, <1>9, <1>10, <1>11 DEF ProfilesInv

LEMMA UnloadDestroysKeeps ==
  ASSUME ProfilesInv, UnloadDestroys
  PROVE  ProfilesInv'
<1> USE DEF Owning
<1>0. ProfilesTypeOK
  BY DEF ProfilesInv
<1>1. PICK b \in mod.doomed :
        /\ dev' = [dev EXCEPT ![b] = "draining"]
        /\ mod' = [mod EXCEPT !.doomed = @ \ {b}, !.victim = b]
  BY DEF UnloadDestroys, BeginDestroy
<1>2. UNCHANGED <<prof, listVars, oid, call, opener>>
  BY DEF UnloadDestroys
<1>3. b \in Blocks /\ dev[b] = "active" /\ b \notin list
  BY <1>0 DEF ProfilesTypeOK, ProfilesInv, UnloadInv
<1>4. mod'.doomed = mod.doomed \ {b} /\ mod'.victim = b
  BY <1>0, <1>1 DEF ProfilesTypeOK
<1>5. \A c \in Blocks : dev'[c] = IF c = b THEN "draining" ELSE dev[c]
  BY <1>0, <1>1 DEF ProfilesTypeOK
<1>6. \A c : Updating(c)' <=> Updating(c)
  BY <1>2 DEF Updating, In
<1>7. \A u \in Admins : call[u].pc \in Owning => call[u].b # b
  BY DEF ProfilesInv, OneOwner
<1>8. ProfilesTypeOK'
  <2>1. dev' \in [Blocks -> {"none", "new", "active", "draining"}]
    BY <1>0, <1>1 DEF ProfilesTypeOK
  <2> QED
    BY <1>0, <1>1, <1>2, <1>3, <2>1 DEF ProfilesTypeOK, listVars
<1>9. ListInv'
  BY <1>0, <1>2, <1>3, <1>5 DEF ProfilesInv, ListInv, ProfilesTypeOK, listVars
<1>10. DeviceInv'
  BY <1>2, <1>3, <1>5 DEF ProfilesInv, DeviceInv
<1>11. HandlerInv'
  <2>1. \A u \in Admins : call[u].pc \in {"insert", "destroy", "drain"} => dev'[call[u].b] = dev[call[u].b]
    BY <1>5, <1>7 DEF ProfilesInv, HandlerInv
  <2> QED
    BY <1>2, <2>1 DEF ProfilesInv, HandlerInv, listVars
<1>12. UnloadInv'
  BY <1>0, <1>2, <1>3, <1>4, <1>5 DEF ProfilesInv, UnloadInv, ProfilesTypeOK, listVars
<1>13. OneOwner'
  BY <1>2, <1>4, <1>7 DEF ProfilesInv, OneOwner
<1>14. FilterInv'
  BY <1>2, <1>6 DEF ProfilesInv, FilterInv
<1>15. OpenInv'
  BY <1>2, <1>5, <1>6 DEF ProfilesInv, OpenInv
<1> QED
  BY <1>8, <1>9, <1>10, <1>11, <1>12, <1>13, <1>14, <1>15 DEF ProfilesInv

LEMMA UnloadFreesKeeps ==
  ASSUME ProfilesInv, UnloadFrees
  PROVE  ProfilesInv'
<1> USE DEF Owning
<1>0. ProfilesTypeOK
  BY DEF ProfilesInv
<1> DEFINE b == mod.victim
<1>1. /\ b # NoBlock /\ EndDestroy(b) /\ mod' = [mod EXCEPT !.victim = NoBlock]
      /\ UNCHANGED <<listVars, oid, call, opener>>
  BY DEF UnloadFrees
<1>2. b \in Blocks /\ dev[b] = "draining" /\ b \notin mod.doomed
  BY <1>0, <1>1 DEF ProfilesTypeOK, ProfilesInv, UnloadInv
<1>3. mod'.victim = NoBlock /\ mod'.doomed = mod.doomed
  BY <1>0, <1>1 DEF ProfilesTypeOK
<1>4. \A u \in Admins : call[u].pc \in Owning => call[u].b # b
  BY DEF ProfilesInv, OneOwner
<1> HIDE DEF b
<1>5. /\ prof' \in [Blocks -> Profiles]
      /\ dev' \in [Blocks -> {"none", "new", "active", "draining"}]
      /\ \A c \in Blocks :
           /\ c # b => prof'[c] = prof[c] /\ dev'[c] = dev[c]
           /\ c = b => ~prof'[c].live /\ dev'[c] = "none"
      /\ \A o \in Openers : opener[o].b # b
  BY <1>0, <1>1, <1>2, EndDestroyIs
<1>6. \A c : Updating(c)' <=> Updating(c)
  BY <1>1 DEF Updating, In
<1>7. b \notin list
  BY <1>2 DEF ProfilesInv, ListInv
<1>8. ProfilesTypeOK'
  BY <1>0, <1>1, <1>5 DEF ProfilesTypeOK, listVars
<1>9. ListInv'
  BY <1>0, <1>1, <1>5, <1>7 DEF ProfilesInv, ListInv, ProfilesTypeOK, listVars
<1>10. DeviceInv'
  BY <1>5 DEF ProfilesInv, DeviceInv
<1>11. HandlerInv'
  <2>1. \A u \in Admins : call[u].pc \in Owning => dev'[call[u].b] = dev[call[u].b]
    BY <1>4, <1>5 DEF ProfilesInv, HandlerInv
  <2>2. \A u \in Admins : call[u].pc = "updating" => call[u].b # b
    BY <1>7 DEF ProfilesInv, HandlerInv
  <2> QED
    BY <1>1, <1>5, <2>1, <2>2 DEF ProfilesInv, HandlerInv, listVars
<1>12. UnloadInv'
  <2>1. \A c \in mod.doomed : c \in Blocks /\ c # b
    BY <1>0, <1>2 DEF ProfilesTypeOK
  <2>2. NoBlock \notin mod.doomed
    BY <1>0, Constants DEF ProfilesTypeOK
  <2> QED
    BY <1>1, <1>3, <1>5, <2>1, <2>2 DEF ProfilesInv, UnloadInv, listVars
<1>13. OneOwner'
  <2>1. \A u \in Admins : call[u].pc \in Owning => call[u].b # NoBlock
    BY Constants DEF ProfilesInv, HandlerInv
  <2> QED
    BY <1>1, <1>3, <2>1 DEF ProfilesInv, OneOwner
<1>14. FilterInv'
  BY <1>5, <1>6 DEF ProfilesInv, FilterInv
<1>15. OpenInv'
  BY <1>1, <1>5, <1>6 DEF ProfilesInv, OpenInv
<1> QED
  BY <1>8, <1>9, <1>10, <1>11, <1>12, <1>13, <1>14, <1>15 DEF ProfilesInv

LEMMA UnloadEndsKeeps ==
  ASSUME ProfilesInv, UnloadRemoves \/ UnloadEnds
  PROVE  ProfilesInv'
<1>0. ProfilesTypeOK
  BY DEF ProfilesInv
<1>1. /\ oid' \in [Names -> Blocks \cup {NoBlock}]
      /\ mod' \in [pc : {"loaded", "destroying", "removing", "unloaded"},
                   doomed : SUBSET Blocks, victim : Blocks \cup {NoBlock}]
      /\ mod'.doomed = mod.doomed /\ mod'.victim = mod.victim
      /\ UNCHANGED <<prof, dev, listVars, call, opener>>
  BY <1>0 DEF UnloadRemoves, UnloadEnds, ProfilesTypeOK
<1>2. \A c : Updating(c)' <=> Updating(c)
  BY <1>1 DEF Updating, In
<1>3. ProfilesTypeOK'
  BY <1>0, <1>1 DEF ProfilesTypeOK, listVars
<1>4. ListInv' /\ DeviceInv' /\ HandlerInv' /\ UnloadInv' /\ OneOwner'
  BY <1>1 DEF ProfilesInv, ListInv, DeviceInv, HandlerInv, UnloadInv, OneOwner, listVars
<1>5. FilterInv' /\ OpenInv'
  BY <1>1, <1>2 DEF ProfilesInv, FilterInv, OpenInv
<1> QED
  BY <1>3, <1>4, <1>5 DEF ProfilesInv

---------------------------------------------------------------------------
LEMMA ProfilesInit == Init => ProfilesInv
<1> SUFFICES ASSUME Init
             PROVE  ProfilesInv
  OBVIOUS
<1>1. \A t \in Admins : call[t] = Idle /\ call[t].pc = "idle"
  BY CallsAre DEF Init
<1>2. \A b \in Blocks : ~prof[b].live /\ dev[b] = "none"
  BY ProfilesAre DEF Init
<1>3. \A o \in Openers : opener[o].pc = "out"
  BY ProfilesAre DEF Init
<1>4. ProfilesTypeOK
  BY CallsAre, ProfilesAre DEF Init, ProfilesTypeOK
<1>5. ListInv
  BY FS_EmptySet, Constants DEF Init, ListInv
<1>6. DeviceInv /\ FilterInv
  BY <1>2 DEF DeviceInv, FilterInv
<1>7. HandlerInv /\ OneOwner
  BY <1>1 DEF HandlerInv, OneOwner, Owning
<1>8. UnloadInv
  BY DEF Init, UnloadInv
<1>9. OpenInv
  BY <1>3 DEF OpenInv
<1> QED
  BY <1>4, <1>5, <1>6, <1>7, <1>8, <1>9 DEF ProfilesInv

LEMMA ProfilesStep == ProfilesInv /\ [ProfilesNext]_profilesVars => ProfilesInv'
<1> SUFFICES ASSUME ProfilesInv, [ProfilesNext]_profilesVars
             PROVE  ProfilesInv'
  OBVIOUS
<1>1. ASSUME NEW t \in Admins,
             CallProfileSet(t) \/ CallProfile(t) \/ \E n \in Names : ReadBack(t, n)
      PROVE  ProfilesInv'
  BY <1>1, CallsMove
<1>2. ASSUME NEW t \in Admins, HandlerStep(t)
      PROVE  ProfilesInv'
  <2>1. CASE BeginUpdate(t)
    BY <2>1, BeginUpdateKeeps
  <2>2. CASE EndUpdate(t)
    BY <2>2, EndUpdateKeeps
  <2>3. CASE Refused(t) \/ MakeDevFails(t) \/ MakeDevPanics(t) \/ Register(t) \/ ReadReturns(t)
    BY <2>3, CallsMove
  <2>4. CASE MakeDev(t)
    BY <2>4, MakeDevKeeps
  <2>5. CASE Insert(t)
    BY <2>5, InsertKeeps
  <2>6. CASE Detach(t)
    BY <2>6, DetachKeeps
  <2>7. CASE DestroyDev(t)
    BY <2>7, DestroyDevKeeps
  <2>8. CASE FreeProfile(t)
    BY <2>8, FreeProfileKeeps
  <2> QED
    BY <1>2, <2>1, <2>2, <2>3, <2>4, <2>5, <2>6, <2>7, <2>8 DEF HandlerStep
<1>3. ASSUME NEW o \in Openers, OpenStep(o) \/ \E b \in Blocks : OpenBegins(o, b)
      PROVE  ProfilesInv'
  BY <1>3, OpenStepKeeps, OpenBeginsKeeps
<1>4. CASE UnloadDetaches
  BY <1>4, UnloadDetachesKeeps
<1>5. CASE UnloadGoesOn
  BY <1>5, UnloadDestroysKeeps, UnloadFreesKeeps, UnloadEndsKeeps DEF UnloadGoesOn
<1>6. CASE UNCHANGED profilesVars
  <2>1. \A c : Updating(c)' <=> Updating(c)
    BY <1>6 DEF Updating, In, profilesVars
  <2>2. ProfilesTypeOK'
    BY <1>6 DEF ProfilesInv, ProfilesTypeOK, profilesVars, listVars
  <2>3. ListInv' /\ DeviceInv' /\ HandlerInv' /\ UnloadInv' /\ OneOwner'
    BY <1>6 DEF ProfilesInv, ListInv, DeviceInv, HandlerInv, UnloadInv, OneOwner,
                profilesVars, listVars
  <2>4. FilterInv' /\ OpenInv'
    BY <1>6, <2>1 DEF ProfilesInv, FilterInv, OpenInv, profilesVars
  <2> QED
    BY <2>2, <2>3, <2>4 DEF ProfilesInv
<1> QED
  BY <1>1, <1>2, <1>3, <1>4, <1>5, <1>6 DEF ProfilesNext

LEMMA ProfilesInvariant == ProfilesSpec => []ProfilesInv
BY ProfilesInit, ProfilesStep, PTL DEF ProfilesSpec

\* The variables keep their types, so that no handler or open goes through a
\* pointer that is not one (tcp_statsdev.c:379-393, 517-590).
THEOREM ProfilesTypeCorrect == ProfilesSpec => []ProfilesTypeOK
<1>1. ProfilesInv => ProfilesTypeOK
  BY DEF ProfilesInv
<1> QED
  BY <1>1, ProfilesInvariant, PTL

\* However many administrators create, update and delete profiles while the
\* module is unloaded, the counter is the length of the list and within
\* TSF_MAX_PROFILES, no name is on the list twice, and a profile on the list
\* has its memory and its device (tcp_statsdev.c:450-495, 697-745, 774-782).
THEOREM TheListIsBalanced == ProfilesSpec => []ProfilesBalanced
<1>1. ProfilesInv => ProfilesBalanced
  BY DEF ProfilesInv, ListInv, DeviceInv, ProfilesBalanced, ProfilesTypeOK
<1> QED
  BY <1>1, ProfilesInvariant, PTL

\* An open keeps the profile it found, and copies that profile's filter unless
\* an update came between (tcp_statsdev.c:379-393, 470-481, 784-788).
THEOREM OpensSeeTheirProfile == ProfilesSpec => []OpenSeesItsProfile
<1>1. ProfilesInv => OpenSeesItsProfile
  <2> SUFFICES ASSUME ProfilesInv, NEW o \in Openers, opener[o].pc \in {"copying", "copied"}
               PROVE  LET p == opener[o] IN
                      /\ prof[p.b].live /\ dev[p.b] \in {"active", "draining"}
                      /\ p.pc = "copied" /\ p.same => p.copy = Whole(prof[p.b].str)
    BY DEF OpenSeesItsProfile
  <2> DEFINE p == opener[o]
  <2>1. /\ p.b \in Blocks /\ dev[p.b] \in {"active", "draining"}
        /\ p.pc = "copied" /\ p.same => p.copy[1] = prof[p.b].str /\ p.copy[2] = prof[p.b].str
    BY DEF ProfilesInv, OpenInv
  <2>2. prof[p.b].live
    BY <2>1 DEF ProfilesInv, DeviceInv
  <2>3. p.copy \in [1 .. 2 -> Text] /\ prof[p.b].str \in Text
    BY <2>1, ProfileFields DEF ProfilesInv, ProfilesTypeOK, Opens, Text
  <2> HIDE DEF p
  <2>4. p.pc = "copied" /\ p.same => p.copy = Whole(prof[p.b].str)
    BY <2>1, <2>3, WholeIs
  <2> QED
    BY <2>1, <2>2, <2>4 DEF p
<1> QED
  BY <1>1, ProfilesInvariant, PTL

\* A read of profiles.<name> returns the string of the filter in force in the
\* profile of the name, and none only when there is no such profile
\* (tcp_statsdev.c:500-515).
THEOREM ReadbackSaysTheFilter == ProfilesSpec => ReadbackIsCurrent
<1> DEFINE Current ==
      \A t \in Admins, n \in Names :
        ReadBack(t, n) /\ NameAt(oid[n]) = {n} =>
          IF Find(n) = {} THEN call'[t].f = NoFilter
          ELSE \A b \in Find(n) : prof[b].filter = Whole(call'[t].f)
<1>1. ProfilesInv => Current
  <2> SUFFICES ASSUME ProfilesInv, NEW t \in Admins, NEW n \in Names,
                      ReadBack(t, n), NameAt(oid[n]) = {n}
               PROVE  IF Find(n) = {} THEN call'[t].f = NoFilter
                      ELSE \A b \in Find(n) : prof[b].filter = Whole(call'[t].f)
    OBVIOUS
  <2>0. ProfilesTypeOK /\ xlock = NoThread
    BY DEF ProfilesInv, ReadBack, Unlocked
  <2>1. \A x, y \in Find(n) : x = y
    BY <2>0 DEF Find, ProfilesInv, ListInv, DeviceInv, ProfilesTypeOK
  <2>2. \A b \in Find(n) : b \in Blocks /\ prof[b].live /\ prof[b].str \in Text
    BY <2>0, ProfileFields DEF Find, ProfilesInv, ListInv, DeviceInv, ProfilesTypeOK
  <2>3. \A b \in Find(n) : prof[b].filter = Whole(prof[b].str)
    <3>1. \A b : ~Updating(b)
      BY <2>0, Constants DEF Updating, In, ProfilesInv, HandlerInv
    <3> QED
      BY <2>2, <3>1 DEF ProfilesInv, FilterInv
  <2>4. CASE Find(n) = {}
    <3>1. call' = [call EXCEPT ![t] = At("got", NoBlock, NoFilter)]
      BY <2>4 DEF ReadBack
    <3> QED
      BY <2>0, <2>4, <3>1, CallsAre, Constants DEF ProfilesTypeOK
  <2>5. CASE Find(n) # {}
    <3>1. PICK b \in Find(n) : call' = [call EXCEPT ![t] = At("got", NoBlock, prof[b].str)]
      BY <2>5 DEF ReadBack
    <3>2. \A f \in Text : At("got", NoBlock, f).f = f
      BY CallsAre
    <3>3. call'[t] = At("got", NoBlock, prof[b].str)
      BY <2>0, <3>1 DEF ProfilesTypeOK
    <3> QED
      BY <2>1, <2>2, <2>3, <2>5, <3>2, <3>3
  <2> QED
    BY <2>4, <2>5
<1> QED
  BY <1>1, ProfilesInvariant, PTL DEF ReadbackIsCurrent
============================================================================
