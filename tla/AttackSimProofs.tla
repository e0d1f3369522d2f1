-------------------------- MODULE AttackSimProofs --------------------------
(***************************************************************************)
(* What a run of attack-sim keeps, for every registry of classes, every    *)
(* preset, any two ranges of addresses, any concurrency and any faults.    *)
(***************************************************************************)
EXTENDS AttackSim, TLAPS, FiniteSetTheorems, SequenceTheorems

Counts(name, c) ==
    /\ c.landed <= c.sent + c.failed
    /\ c.sent <= c.landed + c.broken
    /\ Registry[name].transport = "http" => c.broken = 0
    /\ Registry[name].kind # "dropper" => c.pc # "shell"

(* What a brute force has sent, lost or not, and what it has still to send   *)
(* make up the length of its schedule.                                       *)
OnSchedule(name, c) ==
    (Registry[name].kind = "brute" /\ c.pc # "waiting") =>
        /\ c.draw \in Registry[name].draws
        /\ c.landed + Unsure(c) + c.again + Cardinality(c.fresh) >= Length(c.draw)
        /\ c.pc = "done" => c.fresh = {} /\ c.again = 0

(* Items drawn that have reached no decoy and will not be sent any more.     *)
LeftOut(c) == (1 .. c.draw.items) \ (c.hits \cup c.fresh)

(* Each of them was lost, and a campaign that ended without doing all its    *)
(* commands had none left to send.                                           *)
Spent(c) ==
    c.pc # "waiting" =>
        /\ Cardinality(LeftOut(c)) <= Unsure(c)
        /\ (c.pc = "done" /\ c.left > 0) => c.fresh = {}

(* While a dropper has lost nothing, it has no shell because it is still     *)
(* short of the guess that Cowrie grants.                                    *)
Refused(name, c) ==
    (/\ Registry[name].kind = "dropper" /\ Unsure(c) = 0
     /\ c.pc = "sending" \/ (c.pc = "done" /\ c.left > 0))
        => Cardinality(c.hits) < c.grant

CampaignInv(name, c) ==
    /\ c \in Campaign
    /\ c.fresh \subseteq 1 .. c.draw.items /\ c.hits \subseteq 1 .. c.draw.items
    /\ c.pc = "waiting" => c = Idle
    /\ Counts(name, c)
    /\ OnSchedule(name, c)
    /\ Spent(c)
    /\ Refused(name, c)

(* The semaphore counts the campaigns that run. *)
SlotsMatch == Cardinality(Running) = Concurrency - slots

Inv ==
    /\ TypeOK
    /\ \A n \in Campaigns : CampaignInv(plan[n].name, campaign[n])
    /\ SlotsMatch
    /\ OneCampaignPerSource

-----------------------------------------------------------------------------
(* The steps of one campaign.                                                *)

LEMMA IdleInv ==
    ASSUME NEW name \in Names
    PROVE  CampaignInv(name, Idle)
  BY DEF CampaignInv, Idle, Campaign, Draw, Counts, OnSchedule, Spent, Refused

LEMMA OneTo ==
    ASSUME NEW k \in Nat
    PROVE  IsFiniteSet(1 .. k) /\ Cardinality(1 .. k) = k
<1>1. 1 \in Int /\ k \in Int
  OBVIOUS
<1>2. QED
  BY <1>1, FS_Interval

LEMMA FiniteWithin ==
    ASSUME NEW k \in Nat, NEW S, S \subseteq 1 .. k
    PROVE  IsFiniteSet(S) /\ Cardinality(S) \in Nat
<1>1. IsFiniteSet(S)
  BY OneTo, FS_Subset
<1>2. QED
  BY <1>1, FS_CardinalityType

LEMMA UnsureType ==
    ASSUME NEW c \in Campaign
    PROVE  Unsure(c) \in Nat
  BY DEF Campaign, Unsure

LEMMA LeftOutFinite ==
    ASSUME NEW c \in Campaign
    PROVE  IsFiniteSet(LeftOut(c)) /\ Cardinality(LeftOut(c)) \in Nat
<1>1. c.draw.items \in Nat
  BY DEF Campaign, Draw
<1>2. LeftOut(c) \subseteq 1 .. c.draw.items
  BY DEF LeftOut
<1>3. QED
  BY <1>1, <1>2, FiniteWithin

(* One step of a campaign leaves out no item, or one that it has lost.       *)
LEMMA SpentGoesOn ==
    ASSUME NEW c \in Campaign, Spent(c), c.pc # "waiting", NEW a \in Campaign,
           a.pc # "done", NEW item,
           \/ LeftOut(a) \subseteq LeftOut(c) /\ Unsure(a) >= Unsure(c)
           \/ LeftOut(a) \subseteq LeftOut(c) \cup {item} /\ Unsure(a) = Unsure(c) + 1
    PROVE  Spent(a)
<1>1. /\ IsFiniteSet(LeftOut(c)) /\ Cardinality(LeftOut(c)) \in Nat
      /\ Cardinality(LeftOut(a)) \in Nat /\ Cardinality(LeftOut(c)) <= Unsure(c)
  BY LeftOutFinite DEF Spent
<1>2. Unsure(c) \in Nat /\ Unsure(a) \in Nat
  BY UnsureType
<1>3. CASE LeftOut(a) \subseteq LeftOut(c) /\ Unsure(a) >= Unsure(c)
  <2>1. Cardinality(LeftOut(a)) <= Cardinality(LeftOut(c))
    BY <1>1, <1>3, FS_Subset
  <2>2. Cardinality(LeftOut(a)) <= Unsure(a)
    BY <1>1, <1>2, <1>3, <2>1
  <2>3. QED
    BY <2>2 DEF Spent
<1>4. CASE LeftOut(a) \subseteq LeftOut(c) \cup {item} /\ Unsure(a) = Unsure(c) + 1
  <2> DEFINE S == LeftOut(c) \cup {item}
  <2>1. IsFiniteSet(S) /\ Cardinality(S) \in Nat /\ Cardinality(S) <= Cardinality(LeftOut(c)) + 1
    <3>1. IsFiniteSet(S)
      BY <1>1, FS_AddElement
    <3>2. Cardinality(S) = IF item \in LeftOut(c) THEN Cardinality(LeftOut(c))
                                                 ELSE Cardinality(LeftOut(c)) + 1
      BY <1>1, FS_AddElement
    <3> HIDE DEF S
    <3>3. QED
      BY <1>1, <3>1, <3>2
  <2>2. Cardinality(LeftOut(a)) <= Cardinality(S)
    BY <1>4, <2>1, FS_Subset
  <2> HIDE DEF S
  <2>3. Cardinality(LeftOut(a)) <= Unsure(a)
    BY <1>1, <1>2, <1>4, <2>1, <2>2
  <2>4. QED
    BY <2>3 DEF Spent
<1>5. QED
  BY <1>3, <1>4

(* A campaign that begins has its whole schedule before it.                  *)
LEMMA BeginKeeps ==
    ASSUME NEW name \in Names, NEW d \in Registry[name].draws, NEW grant \in Nat,
           Registry[name].kind = "dropper" => grant > 0,
           NEW c, c = [Idle EXCEPT !.pc = "sending", !.draw = d,
                           !.fresh = Scheduled(d).fresh, !.again = Scheduled(d).again,
                           !.grant = grant, !.left = d.commands]
    PROVE  CampaignInv(name, c)
<1>1. d \in Draw /\ d.items \in Nat \ {0} /\ d.attempts \in Nat /\ d.commands \in Nat
  BY AttackSimAssumption DEF AttackSimAssumption, Draw
<1>2. Length(d) - d.items \in Nat /\ Length(d) \in Nat
  BY <1>1 DEF Length
<1>3. /\ c.pc = "sending" /\ c.draw = d /\ c.fresh = 1 .. d.items
      /\ c.again = Length(d) - d.items /\ c.hits = {} /\ c.landed = 0 /\ c.grant = grant
      /\ c.sent = 0 /\ c.failed = 0 /\ c.broken = 0
  BY DEF Idle, Scheduled
<1>4. c \in Campaign
  <2> DEFINE fresh == 1 .. d.items
             again == Length(d) - d.items
             left == d.commands
  <2>1. c = [pc |-> "sending", draw |-> d, fresh |-> fresh, again |-> again, hits |-> {},
             landed |-> 0, grant |-> grant, left |-> left, sent |-> 0, failed |-> 0,
             broken |-> 0]
    BY DEF Idle, Scheduled
  <2>2. fresh \in SUBSET Nat /\ again \in Nat /\ left \in Nat
    BY <1>1, <1>2
  <2> HIDE DEF fresh, again, left
  <2>3. QED
    BY <1>1, <2>1, <2>2 DEF Campaign
<1>5. Cardinality(c.fresh) = d.items /\ Unsure(c) = 0
  BY <1>1, <1>3, OneTo DEF Unsure
<1>6. OnSchedule(name, c)
  BY <1>1, <1>2, <1>3, <1>5 DEF OnSchedule
<1>7. Counts(name, c)
  BY <1>3 DEF Counts
<1>8. Spent(c)
  <2>1. LeftOut(c) = {}
    BY <1>3 DEF LeftOut
  <2>2. Cardinality(LeftOut(c)) = 0
    BY <2>1, FS_EmptySet
  <2>3. QED
    BY <1>3, <1>5, <2>2 DEF Spent
<1>9. Refused(name, c)
  BY <1>3, FS_EmptySet DEF Refused
<1>10. QED
  BY <1>3, <1>4, <1>6, <1>7, <1>8, <1>9 DEF CampaignInv

(* An item drawn is taken from the fresh ones or from the repetitions.       *)
LEMMA RemainingKeeps ==
    ASSUME NEW c \in Campaign, c.fresh \subseteq 1 .. c.draw.items,
           NEW item \in 1 .. c.draw.items, NEW r \in Remaining(c, item)
    PROVE  /\ r \in Campaign
           /\ r.pc = c.pc /\ r.draw = c.draw /\ r.hits = c.hits /\ r.landed = c.landed
           /\ r.grant = c.grant /\ r.left = c.left
           /\ r.sent = c.sent /\ r.failed = c.failed /\ r.broken = c.broken
           /\ r.fresh \subseteq c.fresh /\ c.fresh \subseteq r.fresh \cup {item}
           /\ r.again + Cardinality(r.fresh) = c.again + Cardinality(c.fresh) - 1
<1>0. c.draw.items \in Nat /\ c.again \in Nat
  BY DEF Campaign, Draw
<1>1. IsFiniteSet(c.fresh) /\ Cardinality(c.fresh) \in Nat
  BY <1>0, FiniteWithin
<1>2. CASE item \in c.fresh /\ r = [c EXCEPT !.fresh = @ \ {item}]
  <2>1. Cardinality(c.fresh \ {item}) = Cardinality(c.fresh) - 1
    BY <1>1, <1>2, FS_RemoveElement
  <2>2. r \in Campaign /\ r.fresh = c.fresh \ {item} /\ r.again = c.again
    BY <1>2 DEF Campaign
  <2>3. QED
    BY <1>1, <1>2, <2>1, <2>2 DEF Campaign
<1>3. CASE c.again > 0 /\ r = [c EXCEPT !.again = @ - 1]
  <2>1. r \in Campaign /\ r.fresh = c.fresh /\ r.again = c.again - 1
    BY <1>0, <1>3 DEF Campaign
  <2>2. QED
    BY <1>0, <1>1, <1>3, <2>1 DEF Campaign
<1>4. QED
  BY <1>2, <1>3 DEF Remaining

LEMMA LandedFields ==
    ASSUME NEW c \in Campaign, NEW item \in Nat
    PROVE  /\ Landed(c, item) \in Campaign
           /\ Landed(c, item).pc = c.pc /\ Landed(c, item).draw = c.draw
           /\ Landed(c, item).fresh = c.fresh /\ Landed(c, item).again = c.again
           /\ Landed(c, item).hits = c.hits \cup {item}
           /\ Landed(c, item).landed = c.landed + 1
           /\ Landed(c, item).grant = c.grant /\ Landed(c, item).left = c.left
           /\ Landed(c, item).sent = c.sent /\ Landed(c, item).failed = c.failed
           /\ Landed(c, item).broken = c.broken
<1> DEFINE landed == c.landed + 1
           hits == c.hits \cup {item}
           after == Landed(c, item)
<1>1. landed \in Nat /\ hits \in SUBSET Nat
  BY DEF Campaign
<1>2. after = [c EXCEPT !.landed = landed, !.hits = hits]
  BY DEF Landed
<1> HIDE DEF landed, hits, after
<1>3. /\ after \in Campaign
      /\ after.pc = c.pc /\ after.draw = c.draw /\ after.fresh = c.fresh
      /\ after.again = c.again /\ after.hits = hits /\ after.landed = landed
      /\ after.grant = c.grant /\ after.left = c.left
      /\ after.sent = c.sent /\ after.failed = c.failed /\ after.broken = c.broken
  BY <1>1, <1>2 DEF Campaign
<1>4. QED
  BY <1>3 DEF landed, hits, after

Answered(s, pc) == [s EXCEPT !.sent = @ + 1, !.pc = pc]

(* An attempt that is answered; a dropper goes on guessing only if the guess *)
(* is not the one to be granted.                                             *)
LEMMA AttemptKeeps ==
    ASSUME NEW name \in Names, NEW c, CampaignInv(name, c), c.pc = "sending",
           NEW item \in 1 .. c.draw.items, NEW r \in Remaining(c, item),
           NEW pc \in {"sending", "shell"},
           Registry[name].kind # "dropper" => pc = "sending",
           Registry[name].kind = "dropper" /\ pc = "sending" =>
               Cardinality(Landed(r, item).hits) # Landed(r, item).grant
    PROVE  /\ CampaignInv(name, Answered(Landed(r, item), pc))
           /\ Answered(Landed(r, item), pc).pc = pc
<1> DEFINE after == Answered(Landed(r, item), pc)
<1>1. /\ c \in Campaign /\ c.fresh \subseteq 1 .. c.draw.items
      /\ c.hits \subseteq 1 .. c.draw.items
  BY DEF CampaignInv
<1>2. /\ r \in Campaign
      /\ r.pc = c.pc /\ r.draw = c.draw /\ r.hits = c.hits /\ r.landed = c.landed
      /\ r.grant = c.grant /\ r.left = c.left
      /\ r.sent = c.sent /\ r.failed = c.failed /\ r.broken = c.broken
      /\ r.fresh \subseteq c.fresh /\ c.fresh \subseteq r.fresh \cup {item}
      /\ r.again + Cardinality(r.fresh) = c.again + Cardinality(c.fresh) - 1
  BY <1>1, RemainingKeeps
<1>3. /\ c.landed \in Nat /\ c.sent \in Nat /\ c.failed \in Nat /\ c.broken \in Nat
      /\ c.again \in Nat /\ r.again \in Nat /\ c.draw.items \in Nat /\ c.grant \in Nat
      /\ item \in Nat
  BY <1>1, <1>2 DEF Campaign, Draw
<1> DEFINE l == Landed(r, item)
<1>4. /\ l \in Campaign
      /\ l.pc = r.pc /\ l.draw = r.draw /\ l.fresh = r.fresh /\ l.again = r.again
      /\ l.hits = r.hits \cup {item} /\ l.landed = r.landed + 1 /\ l.grant = r.grant
      /\ l.sent = r.sent /\ l.failed = r.failed /\ l.broken = r.broken
  BY <1>2, <1>3, LandedFields
<1> HIDE DEF l
<1>5. /\ after \in Campaign
      /\ after.pc = pc /\ after.draw = c.draw /\ after.fresh = r.fresh /\ after.again = r.again
      /\ after.hits = c.hits \cup {item} /\ after.landed = c.landed + 1
      /\ after.grant = c.grant
      /\ after.sent = c.sent + 1 /\ after.failed = c.failed /\ after.broken = c.broken
  <2> DEFINE sent == l.sent + 1
  <2>1. after = [l EXCEPT !.sent = sent, !.pc = pc]
    BY DEF l, Answered
  <2>2. sent \in Nat /\ sent = c.sent + 1
    BY <1>2, <1>3, <1>4
  <2> HIDE DEF sent, after
  <2>3. /\ after \in Campaign
        /\ after.pc = pc /\ after.draw = l.draw /\ after.fresh = l.fresh /\ after.again = l.again
        /\ after.hits = l.hits /\ after.landed = l.landed /\ after.grant = l.grant
        /\ after.sent = sent /\ after.failed = l.failed /\ after.broken = l.broken
    BY <1>4, <2>1, <2>2 DEF Campaign
  <2>4. QED
    BY <1>2, <1>4, <2>2, <2>3
<1> HIDE DEF after
<1>6. Unsure(after) = Unsure(c) /\ Unsure(c) \in Nat
  BY <1>1, <1>5, UnsureType DEF Unsure
<1>7. Counts(name, after)
  BY <1>3, <1>5 DEF CampaignInv, Counts
<1>8. OnSchedule(name, after)
  <2>1. SUFFICES ASSUME Registry[name].kind = "brute"
                 PROVE  /\ after.draw \in Registry[name].draws
                        /\ after.landed + Unsure(after) + after.again + Cardinality(after.fresh)
                              >= Length(after.draw)
                        /\ after.pc # "done"
    BY DEF OnSchedule
  <2>2. /\ c.draw \in Registry[name].draws
        /\ c.landed + Unsure(c) + c.again + Cardinality(c.fresh) >= Length(c.draw)
    BY <2>1 DEF CampaignInv, OnSchedule
  <2>3. c.fresh \subseteq 1 .. c.draw.items /\ r.fresh \subseteq 1 .. c.draw.items
    BY <1>1, <1>2
  <2>4. Cardinality(c.fresh) \in Nat /\ Cardinality(r.fresh) \in Nat
    BY <1>3, <2>3, FiniteWithin
  <2>5. after.landed + Unsure(after) + after.again + Cardinality(after.fresh)
        = c.landed + Unsure(c) + c.again + Cardinality(c.fresh)
    BY <1>2, <1>3, <1>5, <1>6, <2>4
  <2>6. QED
    BY <1>5, <2>2, <2>5
<1>9. Spent(after)
  <2>1. LeftOut(after) \subseteq LeftOut(c)
    BY <1>2, <1>5 DEF LeftOut
  <2>2. Spent(c) /\ c.pc # "waiting" /\ after.pc # "done"
    BY <1>5 DEF CampaignInv
  <2>3. Unsure(after) >= Unsure(c)
    BY <1>6
  <2>4. QED
    BY <1>1, <1>5, <2>1, <2>2, <2>3, SpentGoesOn
<1>10. Refused(name, after)
  <2>1. SUFFICES ASSUME Registry[name].kind = "dropper", Unsure(after) = 0, pc = "sending"
                 PROVE  Cardinality(after.hits) < after.grant
    BY <1>5 DEF Refused
  <2>2. Cardinality(c.hits) < c.grant
    BY <1>6, <2>1 DEF CampaignInv, Refused
  <2>3. IsFiniteSet(c.hits) /\ Cardinality(c.hits) \in Nat
    BY <1>1, <1>3, FiniteWithin
  <2>4. Cardinality(c.hits \cup {item}) \in {Cardinality(c.hits), Cardinality(c.hits) + 1}
    BY <2>3, FS_AddElement
  <2>5. Cardinality(c.hits \cup {item}) # c.grant
    BY <1>2, <1>4, <2>1 DEF l
  <2>6. Cardinality(c.hits \cup {item}) < c.grant
    BY <1>3, <2>2, <2>3, <2>4, <2>5
  <2>7. QED
    BY <1>5, <2>6
<1>11. CampaignInv(name, after) /\ after.pc = pc
  BY <1>1, <1>2, <1>5, <1>7, <1>8, <1>9, <1>10 DEF CampaignInv
<1>12. QED
  BY <1>11 DEF after

(* An attempt that is lost, recorded or not: it fails, or its connection     *)
(* breaks and it counts as sent.                                             *)
Fails(s) == [s EXCEPT !.failed = @ + 1]
Breaks(s) == [s EXCEPT !.sent = @ + 1, !.broken = @ + 1]

LEMMA LossFields ==
    ASSUME NEW s \in Campaign, NEW after \in {Fails(s), Breaks(s)}
    PROVE  /\ after \in Campaign
           /\ after.pc = s.pc /\ after.draw = s.draw /\ after.fresh = s.fresh
           /\ after.again = s.again /\ after.hits = s.hits /\ after.landed = s.landed
           /\ Unsure(after) = Unsure(s) + 1
           /\ after.sent + after.failed = s.sent + s.failed + 1
           /\ after.sent + s.broken = s.sent + after.broken
           /\ after = Fails(s) => after.broken = s.broken
<1> DEFINE failed == s.failed + 1
           sent == s.sent + 1
           broken == s.broken + 1
<1>1. /\ s.sent \in Nat /\ s.failed \in Nat /\ s.broken \in Nat
      /\ failed \in Nat /\ sent \in Nat /\ broken \in Nat
  BY DEF Campaign
<1>2. CASE after = Fails(s)
  <2>1. after = [s EXCEPT !.failed = failed]
    BY <1>2 DEF Fails
  <2> HIDE DEF failed, sent, broken
  <2>2. /\ after \in Campaign
        /\ after.pc = s.pc /\ after.draw = s.draw /\ after.fresh = s.fresh
        /\ after.again = s.again /\ after.hits = s.hits /\ after.landed = s.landed
        /\ after.sent = s.sent /\ after.failed = failed /\ after.broken = s.broken
    BY <1>1, <2>1 DEF Campaign
  <2>3. QED
    BY <1>1, <2>2 DEF Unsure, failed
<1>3. CASE after = Breaks(s) /\ after # Fails(s)
  <2>1. after = [s EXCEPT !.sent = sent, !.broken = broken]
    BY <1>3 DEF Breaks
  <2> HIDE DEF failed, sent, broken
  <2>2. /\ after \in Campaign
        /\ after.pc = s.pc /\ after.draw = s.draw /\ after.fresh = s.fresh
        /\ after.again = s.again /\ after.hits = s.hits /\ after.landed = s.landed
        /\ after.sent = sent /\ after.failed = s.failed /\ after.broken = broken
    BY <1>1, <2>1 DEF Campaign
  <2>3. QED
    BY <1>1, <1>3, <2>2 DEF Unsure, sent, broken
<1>4. QED
  BY <1>2, <1>3

LEMMA LossKeeps ==
    ASSUME NEW name \in Names, NEW c, CampaignInv(name, c), c.pc = "sending",
           NEW item \in 1 .. c.draw.items, NEW r \in Remaining(c, item),
           NEW s \in {r, Landed(r, item)}, NEW after \in {Fails(s), Breaks(s)},
           Registry[name].transport = "http" => after = Fails(s)
    PROVE  CampaignInv(name, after) /\ after.pc = "sending"
<1>1. /\ c \in Campaign /\ c.fresh \subseteq 1 .. c.draw.items
      /\ c.hits \subseteq 1 .. c.draw.items
  BY DEF CampaignInv
<1>2. /\ r \in Campaign
      /\ r.pc = c.pc /\ r.draw = c.draw /\ r.hits = c.hits /\ r.landed = c.landed
      /\ r.sent = c.sent /\ r.failed = c.failed /\ r.broken = c.broken
      /\ r.fresh \subseteq c.fresh /\ c.fresh \subseteq r.fresh \cup {item}
      /\ r.again + Cardinality(r.fresh) = c.again + Cardinality(c.fresh) - 1
  BY <1>1, RemainingKeeps
<1>3. /\ c.landed \in Nat /\ c.sent \in Nat /\ c.failed \in Nat /\ c.broken \in Nat
      /\ c.again \in Nat /\ r.again \in Nat /\ c.draw.items \in Nat /\ item \in Nat
  BY <1>1, <1>2 DEF Campaign, Draw
<1>4. /\ s \in Campaign /\ s.pc = "sending" /\ s.draw = c.draw /\ s.fresh = r.fresh
      /\ s.again = r.again /\ c.hits \subseteq s.hits /\ s.hits \subseteq c.hits \cup {item}
      /\ s.landed \in {c.landed, c.landed + 1}
      /\ s.sent = c.sent /\ s.failed = c.failed /\ s.broken = c.broken
  <2>1. CASE s = r
    BY <1>2, <2>1
  <2>2. CASE s = Landed(r, item)
    <3>1. /\ s \in Campaign
          /\ s.pc = r.pc /\ s.draw = r.draw /\ s.fresh = r.fresh /\ s.again = r.again
          /\ s.hits = r.hits \cup {item} /\ s.landed = r.landed + 1
          /\ s.sent = r.sent /\ s.failed = r.failed /\ s.broken = r.broken
      BY <1>2, <1>3, <2>2, LandedFields
    <3>2. QED
      BY <1>2, <3>1
  <2>3. QED
    BY <2>1, <2>2
<1>5. /\ after \in Campaign
      /\ after.pc = s.pc /\ after.draw = s.draw /\ after.fresh = s.fresh
      /\ after.again = s.again /\ after.hits = s.hits /\ after.landed = s.landed
      /\ Unsure(after) = Unsure(s) + 1
      /\ after.sent + after.failed = s.sent + s.failed + 1
      /\ after.sent + s.broken = s.sent + after.broken
      /\ after = Fails(s) => after.broken = s.broken
  BY <1>4, LossFields
<1>6. /\ Unsure(after) = Unsure(c) + 1 /\ Unsure(c) \in Nat
      /\ after.sent \in Nat /\ after.failed \in Nat /\ after.broken \in Nat
  BY <1>1, <1>4, <1>5, UnsureType DEF Unsure, Campaign
<1>7. Counts(name, after)
  <2>1. /\ c.landed <= c.sent + c.failed /\ c.sent <= c.landed + c.broken
        /\ Registry[name].transport = "http" => c.broken = 0
    BY DEF CampaignInv, Counts
  <2>2. after.landed <= after.sent + after.failed /\ after.sent <= after.landed + after.broken
    BY <1>3, <1>4, <1>5, <1>6, <2>1
  <2>3. QED
    BY <1>4, <1>5, <2>1, <2>2 DEF Counts
<1>8. OnSchedule(name, after)
  <2>1. SUFFICES ASSUME Registry[name].kind = "brute"
                 PROVE  /\ after.draw \in Registry[name].draws
                        /\ after.landed + Unsure(after) + after.again + Cardinality(after.fresh)
                              >= Length(after.draw)
                        /\ after.pc # "done"
    BY DEF OnSchedule
  <2>2. /\ c.draw \in Registry[name].draws
        /\ c.landed + Unsure(c) + c.again + Cardinality(c.fresh) >= Length(c.draw)
    BY <2>1 DEF CampaignInv, OnSchedule
  <2>3. c.fresh \subseteq 1 .. c.draw.items /\ r.fresh \subseteq 1 .. c.draw.items
    BY <1>1, <1>2
  <2>4. Cardinality(c.fresh) \in Nat /\ Cardinality(r.fresh) \in Nat /\ Length(c.draw) \in Nat
    BY <1>1, <1>3, <2>3, FiniteWithin DEF Length, Campaign, Draw
  <2>5. after.landed + Unsure(after) + after.again + Cardinality(after.fresh)
        >= c.landed + Unsure(c) + c.again + Cardinality(c.fresh)
    BY <1>2, <1>3, <1>4, <1>5, <1>6, <2>4
  <2>6. after.landed + Unsure(after) + after.again + Cardinality(after.fresh) \in Nat
    BY <1>3, <1>4, <1>5, <1>6, <2>4
  <2>7. QED
    BY <1>3, <1>4, <1>5, <1>6, <2>2, <2>4, <2>5, <2>6
<1>9. Spent(after)
  <2>1. LeftOut(after) \subseteq LeftOut(c) \cup {item}
    BY <1>2, <1>4, <1>5 DEF LeftOut
  <2>2. Spent(c) /\ c.pc # "waiting" /\ after.pc # "done"
    BY <1>4, <1>5 DEF CampaignInv
  <2>3. QED
    BY <1>1, <1>5, <1>6, <2>1, <2>2, SpentGoesOn
<1>10. Refused(name, after)
  BY <1>6 DEF Refused
<1>11. after.fresh \subseteq 1 .. after.draw.items /\ after.hits \subseteq 1 .. after.draw.items
  BY <1>1, <1>2, <1>4, <1>5
<1>12. QED
  BY <1>4, <1>5, <1>7, <1>8, <1>9, <1>10, <1>11 DEF CampaignInv

(* A command that is sent, or is not, or is lost in an open channel.         *)
Spoken(c, left, landed, sent, failed, broken) ==
    [c EXCEPT !.left = left, !.landed = landed, !.sent = sent, !.failed = failed,
              !.broken = broken]

SpokenFor(c, left, landed, sent, failed, broken) ==
    /\ left \in Nat /\ landed \in Nat /\ sent \in Nat /\ failed \in Nat /\ broken \in Nat
    /\ landed <= sent + failed /\ sent <= landed + broken
    /\ Unsure(c) <= failed + broken

LEMMA CommandKeeps ==
    ASSUME NEW name \in Names, NEW c, CampaignInv(name, c), c.pc = "shell",
           NEW left, NEW landed, NEW sent, NEW failed, NEW broken,
           SpokenFor(c, left, landed, sent, failed, broken)
    PROVE  /\ CampaignInv(name, Spoken(c, left, landed, sent, failed, broken))
           /\ Spoken(c, left, landed, sent, failed, broken).pc = "shell"
<1> DEFINE after == Spoken(c, left, landed, sent, failed, broken)
<1>1. /\ c \in Campaign /\ c.fresh \subseteq 1 .. c.draw.items
      /\ c.hits \subseteq 1 .. c.draw.items
  BY DEF CampaignInv
<1>2. Registry[name].kind = "dropper" /\ Registry[name].transport # "http"
  <2>1. Registry[name].kind = "dropper"
    BY DEF CampaignInv, Counts
  <2>2. QED
    BY <2>1, AttackSimAssumption DEF AttackSimAssumption
<1>3. /\ after \in Campaign /\ after.pc = "shell" /\ after.draw = c.draw
      /\ after.fresh = c.fresh /\ after.hits = c.hits
      /\ after.landed = landed /\ after.sent = sent /\ after.failed = failed
      /\ after.broken = broken
  BY <1>1 DEF Campaign, Spoken, SpokenFor
<1> HIDE DEF after
<1>4. Unsure(after) >= Unsure(c)
  BY <1>1, <1>3, UnsureType DEF Unsure, SpokenFor
<1>5. Spent(after)
  <2>1. LeftOut(after) \subseteq LeftOut(c)
    BY <1>3 DEF LeftOut
  <2>2. Spent(c) /\ c.pc # "waiting" /\ after.pc # "done"
    BY <1>3 DEF CampaignInv
  <2>3. QED
    BY <1>1, <1>3, <1>4, <2>1, <2>2, SpentGoesOn
<1>6. Counts(name, after) /\ OnSchedule(name, after) /\ Refused(name, after)
  BY <1>2, <1>3 DEF SpokenFor, Counts, OnSchedule, Refused
<1>7. CampaignInv(name, after) /\ after.pc = "shell"
  BY <1>1, <1>3, <1>5, <1>6 DEF CampaignInv
<1>8. QED
  BY <1>7 DEF after

LEMMA FinishKeeps ==
    ASSUME NEW name \in Names, NEW c, CampaignInv(name, c), Over(c),
           NEW after, after = [c EXCEPT !.pc = "done"]
    PROVE  CampaignInv(name, after)
<1>1. /\ c \in Campaign /\ c.fresh \subseteq 1 .. c.draw.items
      /\ c.hits \subseteq 1 .. c.draw.items
  BY DEF CampaignInv
<1>2. /\ after \in Campaign /\ after.pc = "done" /\ after.draw = c.draw
      /\ after.fresh = c.fresh /\ after.again = c.again /\ after.hits = c.hits
      /\ after.grant = c.grant /\ after.left = c.left /\ after.landed = c.landed
      /\ after.sent = c.sent /\ after.failed = c.failed /\ after.broken = c.broken
  BY <1>1 DEF Campaign
<1>3. Unsure(after) = Unsure(c) /\ LeftOut(after) = LeftOut(c)
  BY <1>2 DEF Unsure, LeftOut
<1>4. Counts(name, after)
  BY <1>2 DEF CampaignInv, Counts
<1>5. c.pc = "shell" => Registry[name].kind = "dropper"
  BY DEF CampaignInv, Counts
<1>6. OnSchedule(name, after)
  BY <1>2, <1>3, <1>5 DEF CampaignInv, OnSchedule, Over
<1>7. Spent(after)
  BY <1>2, <1>3 DEF CampaignInv, Spent, Over
<1>8. Refused(name, after)
  BY <1>2, <1>3 DEF CampaignInv, Refused, Over
<1>9. QED
  BY <1>1, <1>2, <1>4, <1>6, <1>7, <1>8 DEF CampaignInv

-----------------------------------------------------------------------------
(* The steps of the run.                                                     *)

CampaignsOK ==
    /\ campaign \in Seq(Campaign) /\ Len(campaign) = Len(plan)
    /\ \A n \in Campaigns : CampaignInv(plan[n].name, campaign[n])

LEMMA RunningFinite ==
    ASSUME TypeOK
    PROVE  IsFiniteSet(Running) /\ Cardinality(Running) \in Nat
<1>1. Len(plan) \in Nat /\ Running \subseteq 1 .. Len(plan)
  BY DEF TypeOK, Running, Campaigns
<1>2. QED
  BY <1>1, FiniteWithin

(* A step that leaves sources and campaigns alone.                           *)
LEMMA NoCampaignMoves ==
    ASSUME Inv, UNCHANGED <<pool, plan, campaign, slots>>
    PROVE  CampaignsOK' /\ OneCampaignPerSource' /\ SlotsMatch' /\ Running' = Running
<1>1. Running' = Running
  BY DEF Running, Campaigns
<1>2. OneCampaignPerSource'
  BY DEF Inv, OneCampaignPerSource, Campaigns, pool
<1>3. CampaignsOK'
  BY DEF Inv, TypeOK, CampaignsOK, Campaigns
<1>4. QED
  BY <1>1, <1>2, <1>3 DEF Inv, SlotsMatch

(* A step of one campaign.                                                   *)
LEMMA OneCampaignMoves ==
    ASSUME Inv, NEW n \in Campaigns, NEW after, CampaignInv(plan[n].name, after),
           campaign' = [campaign EXCEPT ![n] = after], UNCHANGED <<pool, plan>>
    PROVE  /\ CampaignsOK' /\ OneCampaignPerSource'
           /\ Running' = IF after.pc \in {"sending", "shell"}
                         THEN Running \cup {n} ELSE Running \ {n}
<1>1. /\ campaign \in Seq(Campaign) /\ Len(campaign) = Len(plan)
      /\ plan \in Seq([name : Names, source : Sources])
      /\ Campaigns = 1 .. Len(plan) /\ after \in Campaign
  BY DEF Inv, TypeOK, Campaigns, CampaignInv
<1>2. /\ campaign' \in Seq(Campaign) /\ Len(campaign') = Len(campaign)
      /\ campaign'[n] = after
      /\ \A m \in Campaigns : m # n => campaign'[m] = campaign[m]
  BY <1>1, ExceptSeq
<1>3. OneCampaignPerSource'
  BY DEF Inv, OneCampaignPerSource, Campaigns, pool
<1>4. CampaignsOK'
  BY <1>1, <1>2 DEF Inv, CampaignsOK, Campaigns
<1>5. Running' = IF after.pc \in {"sending", "shell"} THEN Running \cup {n} ELSE Running \ {n}
  BY <1>2 DEF Running, Campaigns
<1>6. QED
  BY <1>3, <1>4, <1>5

(* A campaign that goes on, its semaphore held.                              *)
LEMMA GoesOn ==
    ASSUME Inv, NEW n \in Running, NEW after, CampaignInv(plan[n].name, after),
           after.pc \in {"sending", "shell"},
           campaign' = [campaign EXCEPT ![n] = after], UNCHANGED <<pool, plan, slots>>
    PROVE  CampaignsOK' /\ OneCampaignPerSource' /\ SlotsMatch' /\ Running' = Running
<1>1. n \in Campaigns
  BY DEF Running
<1>2. CampaignsOK' /\ OneCampaignPerSource' /\ Running' = Running \cup {n}
  BY <1>1, OneCampaignMoves
<1>3. QED
  BY <1>2 DEF Inv, SlotsMatch

(* What is left of the type when sources and campaigns are right.            *)
LEMMA TypeFromParts ==
    ASSUME TypeOK,
           phase' \in {"args", "plan", "probe", "run", "write", "end"},
           exit' \in {-1, 0, 1, 2, 130}, todo' \in [Names -> Nat],
           train' \subseteq Train, heldout' \subseteq HeldOut,
           plan' \in Seq([name : Names, source : Sources]),
           CampaignsOK', slots' \in 0 .. Concurrency, SlotsMatch',
           records' \in Seq(Record), jsonl' \in Seq(Record), summary' \in -1 .. Len(records'),
           faults' \in 0 .. MaxFaults
    PROVE  TypeOK'
<1>1. Cardinality(Running') <= Concurrency
  BY AttackSimAssumption DEF SlotsMatch, AttackSimAssumption
<1>2. QED
  BY <1>1 DEF TypeOK, CampaignsOK

(* Planning.                                                                 *)
LEMMA TakeKeeps ==
    ASSUME Inv, Take
    PROVE  Inv'
<1>1. PICK s \in train \cup heldout :
         /\ train' = IF s \in train THEN Pop(train, s) ELSE train
         /\ heldout' = IF s \in heldout THEN Pop(heldout, s) ELSE heldout
         /\ plan' = Append(plan, [name |-> CHOOSE name \in Names : todo[name] > 0, source |-> s])
         /\ todo' = [todo EXCEPT ![CHOOSE name \in Names : todo[name] > 0] = @ - 1]
  BY DEF Take
<1> DEFINE next == CHOOSE name \in Names : todo[name] > 0
           step == [name |-> next, source |-> s]
<1>2. next \in Names /\ todo[next] > 0
  BY DEF Take, Planned, Inv, TypeOK
<1>3. step \in [name : Names, source : Sources] /\ step.name = next /\ step.source = s
  BY <1>2 DEF Inv, TypeOK, Sources
<1>4. todo' \in [Names -> Nat]
  BY <1>1, <1>2 DEF Inv, TypeOK
<1>5. plan' = Append(plan, step)
  BY <1>1
<1> HIDE DEF next, step
<1>6. /\ plan \in Seq([name : Names, source : Sources]) /\ Campaigns = 1 .. Len(plan)
      /\ Len(plan) \in Nat /\ campaign \in Seq(Campaign) /\ Len(campaign) = Len(plan)
  BY DEF Inv, TypeOK, Campaigns
<1>7. /\ plan' \in Seq([name : Names, source : Sources]) /\ Len(plan') = Len(plan) + 1
      /\ \A n \in Campaigns : plan'[n] = plan[n]
      /\ plan'[Len(plan) + 1] = step
  BY <1>3, <1>5, <1>6, AppendProperties
<1>8. Idle \in Campaign
  BY DEF Idle, Campaign, Draw
<1>9. /\ campaign' \in Seq(Campaign) /\ Len(campaign') = Len(plan) + 1
      /\ \A n \in Campaigns : campaign'[n] = campaign[n]
      /\ campaign'[Len(plan) + 1] = Idle
  BY <1>6, <1>8, AppendProperties DEF Take
<1>10. Campaigns' = Campaigns \cup {Len(plan) + 1} /\ Len(plan) + 1 \notin Campaigns
  BY <1>6, <1>7 DEF Campaigns
<1>11. CampaignsOK'
  <2>1. CampaignInv(step.name, Idle)
    BY <1>2, <1>3, IdleInv
  <2>2. QED
    BY <1>7, <1>9, <1>10, <2>1 DEF Inv, CampaignsOK
<1>12. /\ train' = train \ {s} /\ heldout' = heldout \ {s}
       /\ s \in train \cup heldout
  BY <1>1 DEF Pop
<1>13. OneCampaignPerSource'
  BY <1>3, <1>7, <1>10, <1>12 DEF Inv, OneCampaignPerSource
<1>14. Running' = Running
  <2>1. Idle.pc = "waiting"
    BY DEF Idle
  <2>2. QED
    BY <1>9, <1>10, <2>1 DEF Running
<1>15. SlotsMatch'
  BY <1>14 DEF Inv, SlotsMatch, Take
<1>16. TypeOK'
  <2>1. /\ UNCHANGED <<phase, exit, slots, records, jsonl, summary, faults>>
        /\ train' \subseteq Train /\ heldout' \subseteq HeldOut
    BY <1>12 DEF Take, Inv, TypeOK, files
  <2>2. QED
    BY <1>4, <1>7, <1>11, <1>15, <2>1, TypeFromParts DEF Inv, TypeOK
<1>17. QED
  BY <1>11, <1>13, <1>15, <1>16 DEF Inv, CampaignsOK

(* The steps that leave sources and campaigns alone.                         *)
LEMMA QuietStepKeeps ==
    ASSUME Inv,
           \/ ReadArguments \/ Exhausted \/ PlanReady \/ Probe \/ Gathered
           \/ WriteRows \/ WriteSummary \/ ProbeFails \/ WriteFails \/ Interrupt
           \/ \E n \in Campaigns : Raises(n)
    PROVE  Inv'
<1>1. UNCHANGED <<pool, plan, campaign, slots, records>>
  BY DEF ReadArguments, Exhausted, PlanReady, Probe, Gathered, WriteRows, WriteSummary,
         ProbeFails, WriteFails, Interrupt, Raises, files, pool
<1>2. CampaignsOK' /\ OneCampaignPerSource' /\ SlotsMatch'
  BY <1>1, NoCampaignMoves
<1>3. faults' \in 0 .. MaxFaults
  <2>1. faults' = faults \/ (faults < MaxFaults /\ faults' = faults + 1)
    BY DEF ReadArguments, Exhausted, PlanReady, Probe, Gathered, WriteRows, WriteSummary,
           ProbeFails, WriteFails, Interrupt, Raises, Fault
  <2>2. QED
    BY <2>1, AttackSimAssumption DEF AttackSimAssumption, Inv, TypeOK
<1>4. /\ phase' \in {"args", "plan", "probe", "run", "write", "end"}
      /\ exit' \in {-1, 0, 1, 2, 130}
  BY DEF ReadArguments, Exhausted, PlanReady, Probe, Gathered, WriteRows, WriteSummary,
         ProbeFails, WriteFails, Interrupt, Raises, End, Inv, TypeOK
<1>5. todo' \in [Names -> Nat]
  <2>1. CASE ReadArguments
    <3>1. SUFFICES ASSUME NEW mix \in Mixes, NEW wanted \in Onlys,
                          todo' = [name \in Names |->
                              IF wanted = {} \/ name \in wanted THEN mix[name] ELSE 0]
                   PROVE  todo' \in [Names -> Nat]
      <4>1. todo \in [Names -> Nat]
        BY DEF Inv, TypeOK
      <4>2. PICK mix \in Mixes, wanted \in Onlys :
               IF wanted \ Names # {} THEN todo' = todo
               ELSE todo' = [name \in Names |->
                                IF wanted = {} \/ name \in wanted THEN mix[name] ELSE 0]
        BY <2>1 DEF ReadArguments
      <4>3. CASE todo' = todo
        BY <4>1, <4>3
      <4>4. QED
        BY <4>2, <4>3
    <3>2. mix \in [Names -> Nat]
      BY AttackSimAssumption DEF AttackSimAssumption
    <3>3. QED
      BY <3>1, <3>2
  <2>2. CASE UNCHANGED todo
    BY <2>2 DEF Inv, TypeOK
  <2>3. QED
    BY <2>1, <2>2 DEF Exhausted, PlanReady, Probe, Gathered, WriteRows, WriteSummary,
                      ProbeFails, WriteFails, Interrupt, Raises
<1>6. jsonl' \in Seq(Record) /\ summary' \in -1 .. Len(records')
  <2>0. /\ records \in Seq(Record) /\ jsonl \in Seq(Record) /\ summary \in -1 .. Len(records)
        /\ Len(records) \in Nat /\ Len(jsonl) \in Nat
    BY DEF Inv, TypeOK
  <2>1. CASE WriteFails
    <3>1. PICK k \in Len(jsonl) .. Len(records) : jsonl' = SubSeq(records, 1, k)
      BY <2>1 DEF WriteFails
    <3>2. \A i \in 1 .. k : records[i] \in Record
      BY <2>0, <3>1
    <3>3. SubSeq(records, 1, k) \in Seq(Record)
      BY <2>0, <3>1, <3>2, SubSeqProperties
    <3>4. QED
      BY <1>1, <2>0, <2>1, <3>1, <3>3 DEF WriteFails
  <2>2. CASE WriteRows \/ WriteSummary
    BY <1>1, <2>0, <2>2 DEF WriteRows, WriteSummary
  <2>3. CASE UNCHANGED files
    BY <1>1, <2>0, <2>3 DEF files
  <2>4. QED
    BY <2>1, <2>2, <2>3 DEF ReadArguments, Exhausted, PlanReady, Probe, Gathered,
                            ProbeFails, Interrupt, Raises
<1>7. TypeOK'
  BY <1>1, <1>2, <1>3, <1>4, <1>5, <1>6, TypeFromParts DEF Inv, TypeOK, pool
<1>8. QED
  BY <1>2, <1>7 DEF Inv, CampaignsOK

(* The steps of a campaign.  All of them leave this alone:                   *)
Aside == UNCHANGED <<todo, pool, plan, files>>

(* The type once one campaign has moved.                                     *)
LEMMA TypeOfMove ==
    ASSUME Inv, Aside, UNCHANGED <<phase, exit>>, CampaignsOK', SlotsMatch',
           slots' \in 0 .. Concurrency, faults' = faults \/ Fault,
           records' \in Seq(Record), Len(records') >= Len(records)
    PROVE  TypeOK'
<1>1. faults' \in 0 .. MaxFaults
  BY AttackSimAssumption DEF AttackSimAssumption, Inv, TypeOK, Fault
<1>2. summary' \in -1 .. Len(records')
  <2>1. Len(records') \in Nat /\ Len(records) \in Nat /\ summary \in -1 .. Len(records)
    BY DEF Inv, TypeOK
  <2>2. QED
    BY <2>1 DEF Aside, files
<1>3. QED
  BY <1>1, <1>2, TypeFromParts DEF Inv, TypeOK, Aside, pool, files

LEMMA GoingOnKeeps ==
    ASSUME Inv, NEW n \in Running, NEW after, CampaignInv(plan[n].name, after),
           after.pc \in {"sending", "shell"},
           campaign' = [campaign EXCEPT ![n] = after],
           Aside, UNCHANGED <<phase, exit, slots, records>>, faults' = faults \/ Fault
    PROVE  Inv'
<1>1. CampaignsOK' /\ OneCampaignPerSource' /\ SlotsMatch'
  BY GoesOn DEF Aside
<1>2. slots' \in 0 .. Concurrency /\ records' \in Seq(Record) /\ Len(records') >= Len(records)
  BY DEF Inv, TypeOK
<1>3. TypeOK'
  BY <1>1, <1>2, TypeOfMove
<1>4. QED
  BY <1>1, <1>3 DEF Inv, CampaignsOK

LEMMA PlannedName ==
    ASSUME Inv, NEW n \in Campaigns
    PROVE  /\ plan[n].name \in Names /\ plan[n].source \in Sources
           /\ CampaignInv(plan[n].name, campaign[n]) /\ campaign[n] \in Campaign
<1>1. /\ plan \in Seq([name : Names, source : Sources]) /\ n \in 1 .. Len(plan)
  BY DEF Inv, TypeOK, Campaigns
<1>2. plan[n] \in [name : Names, source : Sources]
  BY <1>1, ElementOfSeq
<1>3. CampaignInv(plan[n].name, campaign[n])
  BY DEF Inv
<1>4. QED
  BY <1>2, <1>3 DEF CampaignInv

(* A campaign that begins or goes on.                                        *)
Moves(n, after) ==
    /\ campaign' = [campaign EXCEPT ![n] = after]
    /\ CampaignInv(plan[n].name, after) /\ after.pc \in {"sending", "shell"}

LEMMA BeginMoves ==
    ASSUME Inv, NEW n \in Campaigns, Begin(n)
    PROVE  \E after : Moves(n, after)
<1>1. PICK d \in Registry[plan[n].name].draws, grant \in Grants :
         campaign' = [campaign EXCEPT ![n] =
             [campaign[n] EXCEPT !.pc = "sending", !.draw = d,
                       !.fresh = Scheduled(d).fresh, !.again = Scheduled(d).again,
                       !.grant = IF Kind(n) = "dropper" THEN grant ELSE 0,
                       !.left = d.commands]]
  BY DEF Begin
<1> DEFINE given == IF Kind(n) = "dropper" THEN grant ELSE 0
           after == [campaign[n] EXCEPT !.pc = "sending", !.draw = d,
                       !.fresh = Scheduled(d).fresh, !.again = Scheduled(d).again,
                       !.grant = given, !.left = d.commands]
<1>2. given \in Nat /\ (Registry[plan[n].name].kind = "dropper" => given > 0)
  BY AttackSimAssumption DEF AttackSimAssumption, Kind
<1>3. campaign' = [campaign EXCEPT ![n] = after]
  BY <1>1
<1>4. campaign[n] = Idle
  BY PlannedName DEF Begin, CampaignInv
<1>5. after.pc = "sending"
  BY <1>4 DEF Idle
<1> HIDE DEF given
<1>6. CampaignInv(plan[n].name, after)
  BY <1>2, <1>4, PlannedName, BeginKeeps
<1> HIDE DEF after
<1>7. QED
  BY <1>3, <1>5, <1>6 DEF Moves

LEMMA AttemptMoves ==
    ASSUME Inv, NEW n \in Campaigns, Attempt(n)
    PROVE  \E after : Moves(n, after)
<1>1. PICK item \in 1 .. campaign[n].draw.items : \E r \in Remaining(campaign[n], item) :
         \E granted \in Granted(n, Landed(r, item)) :
            campaign' = [campaign EXCEPT ![n] =
                [Landed(r, item) EXCEPT !.sent = @ + 1,
                                        !.pc = IF granted THEN "shell" ELSE "sending"]]
  BY DEF Attempt
<1>2. PICK r \in Remaining(campaign[n], item) : \E granted \in Granted(n, Landed(r, item)) :
         campaign' = [campaign EXCEPT ![n] =
             [Landed(r, item) EXCEPT !.sent = @ + 1,
                                     !.pc = IF granted THEN "shell" ELSE "sending"]]
  BY <1>1
<1>3. PICK granted \in Granted(n, Landed(r, item)) :
         campaign' = [campaign EXCEPT ![n] =
             [Landed(r, item) EXCEPT !.sent = @ + 1,
                                     !.pc = IF granted THEN "shell" ELSE "sending"]]
  BY <1>2
<1> DEFINE pc == IF granted THEN "shell" ELSE "sending"
           after == Answered(Landed(r, item), pc)
<1>4. /\ Registry[plan[n].name].kind # "dropper" => pc = "sending"
      /\ Registry[plan[n].name].kind = "dropper" /\ pc = "sending" =>
             Cardinality(Landed(r, item).hits) # Landed(r, item).grant
  BY DEF Granted, Kind
<1>5. campaign' = [campaign EXCEPT ![n] = after]
  BY <1>3 DEF Answered
<1>6. pc \in {"sending", "shell"}
  BY Zenon
<1> HIDE DEF pc
<1>7. /\ plan[n].name \in Names /\ CampaignInv(plan[n].name, campaign[n])
      /\ campaign[n].pc = "sending"
  BY PlannedName DEF Attempt
<1>8. CampaignInv(plan[n].name, after) /\ after.pc = pc
  BY <1>4, <1>6, <1>7, AttemptKeeps
<1> HIDE DEF after
<1>9. QED
  BY <1>5, <1>6, <1>8 DEF Moves

(* A lost attempt, in one form for the two ways it is counted.               *)
LEMMA LossIs ==
    ASSUME NEW n \in Campaigns, AttemptFails(n) \/ GuessBreaks(n)
    PROVE  \E item \in 1 .. campaign[n].draw.items : \E r \in Remaining(campaign[n], item) :
              \E s \in {r, Landed(r, item)} : \E after \in {Fails(s), Breaks(s)} :
                 /\ campaign' = [campaign EXCEPT ![n] = after]
                 /\ Registry[plan[n].name].transport = "http" => after = Fails(s)
<1>1. CASE AttemptFails(n)
  <2>1. PICK item \in 1 .. campaign[n].draw.items : \E r \in Remaining(campaign[n], item) :
           \E s \in {r, Landed(r, item)} : campaign' = [campaign EXCEPT ![n] = Fails(s)]
    BY <1>1 DEF AttemptFails, Fails
  <2>2. PICK r \in Remaining(campaign[n], item) : \E s \in {r, Landed(r, item)} :
           campaign' = [campaign EXCEPT ![n] = Fails(s)]
    BY <2>1
  <2>3. QED
    BY <2>2
<1>2. CASE GuessBreaks(n)
  <2>1. PICK item \in 1 .. campaign[n].draw.items : \E r \in Remaining(campaign[n], item) :
           \E s \in {r, Landed(r, item)} : campaign' = [campaign EXCEPT ![n] = Breaks(s)]
    BY <1>2 DEF GuessBreaks, Breaks
  <2>2. PICK r \in Remaining(campaign[n], item) : \E s \in {r, Landed(r, item)} :
           campaign' = [campaign EXCEPT ![n] = Breaks(s)]
    BY <2>1
  <2>3. Registry[plan[n].name].transport # "http"
    BY <1>2 DEF GuessBreaks
  <2>4. QED
    BY <2>2, <2>3
<1>3. QED
  BY <1>1, <1>2

LEMMA LossMoves ==
    ASSUME Inv, NEW n \in Campaigns, AttemptFails(n) \/ GuessBreaks(n)
    PROVE  \E after : Moves(n, after)
<1>1. PICK item \in 1 .. campaign[n].draw.items : \E r \in Remaining(campaign[n], item) :
         \E s \in {r, Landed(r, item)} : \E after \in {Fails(s), Breaks(s)} :
            /\ campaign' = [campaign EXCEPT ![n] = after]
            /\ Registry[plan[n].name].transport = "http" => after = Fails(s)
  BY LossIs
<1>2. PICK r \in Remaining(campaign[n], item) :
         \E s \in {r, Landed(r, item)} : \E after \in {Fails(s), Breaks(s)} :
            /\ campaign' = [campaign EXCEPT ![n] = after]
            /\ Registry[plan[n].name].transport = "http" => after = Fails(s)
  BY <1>1
<1>3. PICK s \in {r, Landed(r, item)} : \E after \in {Fails(s), Breaks(s)} :
            /\ campaign' = [campaign EXCEPT ![n] = after]
            /\ Registry[plan[n].name].transport = "http" => after = Fails(s)
  BY <1>2
<1>4. PICK after \in {Fails(s), Breaks(s)} :
            /\ campaign' = [campaign EXCEPT ![n] = after]
            /\ Registry[plan[n].name].transport = "http" => after = Fails(s)
  BY <1>3
<1>5. campaign[n].pc = "sending"
  BY DEF AttemptFails, GuessBreaks
<1>6. CampaignInv(plan[n].name, after) /\ after.pc = "sending"
  BY <1>4, <1>5, PlannedName, LossKeeps
<1>7. QED
  BY <1>4, <1>6 DEF Moves

(* A command has gone out, or its channel was open, or it was not.           *)
LEMMA CommandMoves ==
    ASSUME Inv, NEW n \in Campaigns, Command(n) \/ CommandFails(n)
    PROVE  \E after : Moves(n, after)
<1> DEFINE c == campaign[n]
<1>1. /\ c \in Campaign /\ CampaignInv(plan[n].name, c) /\ plan[n].name \in Names
      /\ c.pc = "shell" /\ c.left > 0
  BY PlannedName DEF Command, CommandFails
<1>2. /\ c.left \in Nat /\ c.landed \in Nat /\ c.sent \in Nat /\ c.failed \in Nat
      /\ c.broken \in Nat
      /\ c.landed <= c.sent + c.failed /\ c.sent <= c.landed + c.broken
  BY <1>1 DEF Campaign, CampaignInv, Counts
<1> DEFINE left == c.left - 1
           landed == c.landed + 1
           sent == c.sent + 1
           failed == c.failed + 1
           broken == c.broken + 1
<1>3. /\ SpokenFor(c, left, landed, sent, c.failed, c.broken)
      /\ SpokenFor(c, left, c.landed, sent, c.failed, broken)
      /\ SpokenFor(c, left, c.landed, c.sent, failed, c.broken)
  BY <1>1, <1>2 DEF SpokenFor, Unsure
<1>4. \/ campaign' = [campaign EXCEPT ![n] = Spoken(c, left, landed, sent, c.failed, c.broken)]
      \/ campaign' = [campaign EXCEPT ![n] = Spoken(c, left, c.landed, sent, c.failed, broken)]
      \/ campaign' = [campaign EXCEPT ![n] = Spoken(c, left, c.landed, c.sent, failed, c.broken)]
  <2>1. CASE Command(n)
    <3>1. campaign' = [campaign EXCEPT ![n] =
                 [c EXCEPT !.left = left, !.landed = landed, !.sent = sent]]
      BY <2>1 DEF Command
    <3> HIDE DEF left, landed, sent, failed, broken
    <3>2. [c EXCEPT !.left = left, !.landed = landed, !.sent = sent]
          = Spoken(c, left, landed, sent, c.failed, c.broken)
      BY <1>1 DEF Campaign, Spoken
    <3>3. QED
      BY <3>1, <3>2
  <2>2. CASE CommandFails(n)
    <3>1. PICK opened \in BOOLEAN : campaign' = [campaign EXCEPT ![n] =
             [c EXCEPT !.left = left,
                       !.sent = IF opened THEN sent ELSE c.sent,
                       !.broken = IF opened THEN broken ELSE c.broken,
                       !.failed = IF opened THEN c.failed ELSE failed]]
      BY <2>2 DEF CommandFails
    <3> HIDE DEF left, landed, sent, failed, broken
    <3>2. CASE opened = TRUE
      <4>1. campaign' = [campaign EXCEPT ![n] =
                [c EXCEPT !.left = left, !.sent = sent, !.broken = broken, !.failed = c.failed]]
        BY <3>1, <3>2
      <4>2. [c EXCEPT !.left = left, !.sent = sent, !.broken = broken, !.failed = c.failed]
            = Spoken(c, left, c.landed, sent, c.failed, broken)
        BY <1>1 DEF Campaign, Spoken
      <4>3. QED
        BY <4>1, <4>2
    <3>3. CASE opened = FALSE
      <4>1. campaign' = [campaign EXCEPT ![n] =
                [c EXCEPT !.left = left, !.sent = c.sent, !.broken = c.broken, !.failed = failed]]
        BY <3>1, <3>3
      <4>2. [c EXCEPT !.left = left, !.sent = c.sent, !.broken = c.broken, !.failed = failed]
            = Spoken(c, left, c.landed, c.sent, failed, c.broken)
        BY <1>1 DEF Campaign, Spoken
      <4>3. QED
        BY <4>1, <4>2
    <3>4. QED
      BY <3>2, <3>3
  <2>3. QED
    BY <2>1, <2>2
<1> HIDE DEF left, landed, sent, failed, broken
<1>5. /\ CampaignInv(plan[n].name, Spoken(c, left, landed, sent, c.failed, c.broken))
      /\ Spoken(c, left, landed, sent, c.failed, c.broken).pc = "shell"
  BY <1>1, <1>3, CommandKeeps
<1>6. /\ CampaignInv(plan[n].name, Spoken(c, left, c.landed, sent, c.failed, broken))
      /\ Spoken(c, left, c.landed, sent, c.failed, broken).pc = "shell"
  BY <1>1, <1>3, CommandKeeps
<1>7. /\ CampaignInv(plan[n].name, Spoken(c, left, c.landed, c.sent, failed, c.broken))
      /\ Spoken(c, left, c.landed, c.sent, failed, c.broken).pc = "shell"
  BY <1>1, <1>3, CommandKeeps
<1>8. QED
  BY <1>4, <1>5, <1>6, <1>7 DEF Moves

(* The campaigns that begin or go on, in one.                                *)
GoingOn(n) ==
    Attempt(n) \/ AttemptFails(n) \/ GuessBreaks(n) \/ Command(n) \/ CommandFails(n)
Going(n) == Begin(n) \/ GoingOn(n)

LEMMA GoingMoves ==
    ASSUME Inv, NEW n \in Campaigns, Going(n)
    PROVE  /\ \E after : Moves(n, after)
           /\ campaign[n].pc \in {"waiting", "sending", "shell"} /\ phase = "run"
           /\ UNCHANGED <<phase, exit, plan, records, files>>
<1>1. \E after : Moves(n, after)
  BY BeginMoves, AttemptMoves, LossMoves, CommandMoves DEF Going, GoingOn
<1>2. campaign[n].pc \in {"waiting", "sending", "shell"} /\ phase = "run"
  <2>1. CASE Begin(n)
    BY <2>1, Zenon DEF Begin
  <2>2. CASE Attempt(n) \/ AttemptFails(n) \/ GuessBreaks(n)
    BY <2>2, Zenon DEF Attempt, AttemptFails, GuessBreaks
  <2>3. CASE Command(n)
    BY <2>3, Zenon DEF Command
  <2>4. CASE CommandFails(n)
    BY <2>4, Zenon DEF CommandFails
  <2>5. QED
    BY <2>1, <2>2, <2>3, <2>4 DEF Going, GoingOn
<1>3. UNCHANGED <<phase, exit, plan, records, files>>
  BY Zenon DEF Going, GoingOn, Begin, Attempt, AttemptFails, GuessBreaks, Command, CommandFails, files
<1>4. QED
  BY <1>1, <1>2, <1>3

LEMMA BeginStepKeeps ==
    ASSUME Inv, NEW n \in Campaigns, Begin(n)
    PROVE  Inv'
<1>1. PICK after : Moves(n, after)
  BY BeginMoves
<1>2. /\ Aside /\ slots' = slots - 1 /\ slots > 0 /\ campaign[n].pc = "waiting"
      /\ UNCHANGED <<phase, exit, records, faults>>
  BY DEF Begin, Free, Aside
<1>3. CampaignsOK' /\ OneCampaignPerSource' /\ Running' = Running \cup {n}
  BY <1>1, <1>2, OneCampaignMoves DEF Aside, Moves
<1>4. SlotsMatch'
  <2>1. n \notin Running
    BY <1>2 DEF Running
  <2>2. Cardinality(Running \cup {n}) = Cardinality(Running) + 1
    BY <2>1, RunningFinite, FS_AddElement DEF Inv
  <2>3. slots \in Int /\ Concurrency \in Int /\ Cardinality(Running) = Concurrency - slots
    BY AttackSimAssumption DEF AttackSimAssumption, Inv, TypeOK, SlotsMatch
  <2>4. Concurrency - slots + 1 = Concurrency - (slots - 1)
    BY <2>3
  <2>5. QED
    BY <1>2, <1>3, <2>2, <2>3, <2>4 DEF SlotsMatch
<1>5. TypeOK'
  <2>1. slots' \in 0 .. Concurrency
    BY <1>2, AttackSimAssumption DEF AttackSimAssumption, Inv, TypeOK
  <2>2. records' \in Seq(Record) /\ Len(records') >= Len(records)
    BY <1>2 DEF Inv, TypeOK
  <2>3. QED
    BY <1>2, <1>3, <1>4, <2>1, <2>2, TypeOfMove
<1>6. QED
  BY <1>3, <1>4, <1>5 DEF Inv, CampaignsOK

LEMMA GoingOnStepKeeps ==
    ASSUME Inv, NEW n \in Campaigns, GoingOn(n)
    PROVE  Inv'
<1>1. PICK after : Moves(n, after)
  BY AttemptMoves, LossMoves, CommandMoves DEF GoingOn
<1>2. campaign[n].pc \in {"sending", "shell"}
  <2>1. CASE Attempt(n) \/ AttemptFails(n) \/ GuessBreaks(n)
    BY <2>1, Zenon DEF Attempt, AttemptFails, GuessBreaks
  <2>2. CASE Command(n) \/ CommandFails(n)
    BY <2>2, Zenon DEF Command, CommandFails
  <2>3. QED
    BY <2>1, <2>2 DEF GoingOn
<1>3. Aside /\ UNCHANGED <<phase, exit, slots, records>>
  BY Zenon DEF GoingOn, Attempt, AttemptFails, GuessBreaks, Command, CommandFails, Aside
<1>4. faults' = faults \/ Fault
  BY Zenon DEF GoingOn, Attempt, AttemptFails, GuessBreaks, Command, CommandFails
<1>5. n \in Running
  BY <1>2 DEF Running
<1>6. QED
  BY <1>1, <1>3, <1>4, <1>5, GoingOnKeeps DEF Moves

LEMMA FinishStepKeeps ==
    ASSUME Inv, NEW n \in Campaigns, Finish(n)
    PROVE  Inv'
<1> DEFINE c == campaign[n]
           after == [c EXCEPT !.pc = "done"]
<1>1. /\ c \in Campaign /\ CampaignInv(plan[n].name, c) /\ plan[n].name \in Names
      /\ plan[n].source \in Sources /\ Over(c) /\ c.pc \in {"sending", "shell"}
      /\ n \in Running
  BY PlannedName DEF Finish, Over, Running
<1>2. CampaignInv(plan[n].name, after) /\ after.pc = "done"
  BY <1>1, FinishKeeps DEF Campaign
<1>3. campaign' = [campaign EXCEPT ![n] = after]
  BY DEF Finish
<1> HIDE DEF after
<1>4. /\ Aside /\ UNCHANGED <<phase, exit, faults>> /\ slots' = slots + 1
      /\ records' = Append(records, RecordOf(n))
  BY DEF Finish, Aside
<1>5. CampaignsOK' /\ OneCampaignPerSource' /\ Running' = Running \ {n}
  BY <1>2, <1>3, <1>4, OneCampaignMoves DEF Aside
<1>6. /\ Cardinality(Running \ {n}) = Cardinality(Running) - 1
      /\ Cardinality(Running) \in Nat /\ Cardinality(Running) - 1 \in Nat
  <2>1. IsFiniteSet(Running) /\ Cardinality(Running) \in Nat
    BY RunningFinite DEF Inv
  <2>2. IsFiniteSet(Running \ {n}) /\ Cardinality(Running \ {n}) = Cardinality(Running) - 1
    BY <1>1, <2>1, FS_RemoveElement
  <2>3. Cardinality(Running \ {n}) \in Nat
    BY <2>2, FS_CardinalityType
  <2>4. QED
    BY <2>1, <2>2, <2>3
<1>7. /\ slots \in 0 .. Concurrency /\ Concurrency \in Nat
      /\ Cardinality(Running) = Concurrency - slots
  BY AttackSimAssumption DEF AttackSimAssumption, Inv, TypeOK, SlotsMatch
<1>8. SlotsMatch' /\ slots' \in 0 .. Concurrency
  BY <1>4, <1>5, <1>6, <1>7 DEF SlotsMatch
<1>9. records' \in Seq(Record) /\ Len(records') >= Len(records)
  <2>1. RecordOf(n) \in Record
    <3>1. c.sent \in Nat /\ c.failed \in Nat
      BY <1>1 DEF Campaign
    <3>2. QED
      BY <1>1, <3>1 DEF Record, RecordOf
  <2>2. records \in Seq(Record) /\ Len(records) \in Nat
    BY DEF Inv, TypeOK
  <2>3. QED
    BY <1>4, <2>1, <2>2, AppendProperties
<1>10. TypeOK'
  BY <1>4, <1>5, <1>8, <1>9, TypeOfMove
<1>11. QED
  BY <1>5, <1>8, <1>10 DEF Inv, CampaignsOK

-----------------------------------------------------------------------------
LEMMA InitInv == Init => Inv
<1> SUFFICES ASSUME Init PROVE Inv
  OBVIOUS
<1>1. Campaigns = {} /\ Running = {} /\ Len(plan) = 0 /\ Len(campaign) = 0
  BY DEF Init, Campaigns, Running
<1>2. Cardinality(Running) = 0 /\ Concurrency \in Nat /\ MaxFaults \in Nat
  BY <1>1, FS_EmptySet, AttackSimAssumption DEF AttackSimAssumption
<1>3. TypeOK
  BY <1>1, <1>2 DEF Init, TypeOK
<1>4. SlotsMatch
  BY <1>2 DEF Init, SlotsMatch
<1>5. QED
  BY <1>1, <1>3, <1>4 DEF Inv, OneCampaignPerSource

LEMMA StepInv == Inv /\ [Next]_vars => Inv'
<1> SUFFICES ASSUME Inv, [Next]_vars PROVE Inv'
  OBVIOUS
<1>1. CASE UNCHANGED vars
  <2>1. UNCHANGED <<phase, exit, todo, pool, plan, campaign, slots, records, files, faults>>
    BY <1>1 DEF vars
  <2>2. CampaignsOK' /\ OneCampaignPerSource' /\ SlotsMatch'
    BY <2>1, NoCampaignMoves
  <2>3. TypeOK'
    BY <2>1, <2>2, TypeFromParts DEF Inv, TypeOK, pool, files
  <2>4. QED
    BY <2>2, <2>3 DEF Inv, CampaignsOK
<1>2. CASE Take
  BY <1>2, TakeKeeps
<1>3. CASE \/ ReadArguments \/ Exhausted \/ PlanReady \/ Probe \/ Gathered
           \/ WriteRows \/ WriteSummary \/ ProbeFails \/ WriteFails \/ Interrupt
           \/ \E n \in Campaigns : Raises(n)
  BY <1>3, QuietStepKeeps
<1>4. CASE \E n \in Campaigns : Begin(n)
  BY <1>4, BeginStepKeeps
<1>5. CASE \E n \in Campaigns : GoingOn(n)
  BY <1>5, GoingOnStepKeeps
<1>6. CASE \E n \in Campaigns : Finish(n)
  BY <1>6, FinishStepKeeps
<1>7. QED
  BY <1>1, <1>2, <1>3, <1>4, <1>5, <1>6 DEF Next, GoingOn

(* The inductive invariant holds in every run.                               *)
THEOREM Invariance == Spec => []Inv
  BY InitInv, StepInv, PTL DEF Spec

(* Every variable keeps its type, and no more campaigns run at once than     *)
(* --concurrency allows (runner.py:172-188).                                 *)
THEOREM TypeCorrect == Spec => []TypeOK
<1>1. Inv => TypeOK
  BY DEF Inv
<1>2. QED
  BY <1>1, Invariance, PTL

(* No two campaigns of a run share a source (sources.py:49-61).              *)
THEOREM SourcesUnique == Spec => []OneCampaignPerSource
<1>1. Inv => OneCampaignPerSource
  BY DEF Inv
<1>2. QED
  BY <1>1, Invariance, PTL

(* Nothing lands uncounted, and what counts as sent without having landed    *)
(* was on an SSH connection that broke, whatever is drawn, granted or lost   *)
(* (client.py:57-62, ssh_client.py:103-173).                                 *)
THEOREM CountsBracket == Spec => []CountsBracketTraffic
<1>1. Inv => CountsBracketTraffic
  <2>1. SUFFICES ASSUME Inv, NEW n \in Campaigns
                 PROVE  LET c == campaign[n]
                        IN  /\ c.landed <= c.sent + c.failed
                            /\ c.sent <= c.landed + c.broken
                            /\ Registry[plan[n].name].transport = "http" => c.sent <= c.landed
    BY DEF CountsBracketTraffic
  <2>2. campaign[n] \in Campaign /\ Counts(plan[n].name, campaign[n])
    BY <2>1, PlannedName DEF CampaignInv
  <2>3. QED
    BY <2>2 DEF Counts, Campaign
<1>2. QED
  BY <1>1, Invariance, PTL

(* What is not fresh is a hit or left out.                                   *)
LEMMA HitsAndLeftOut ==
    ASSUME NEW c \in Campaign, c.hits \subseteq 1 .. c.draw.items, c.fresh = {}
    PROVE  /\ Cardinality(c.hits) \in Nat
           /\ Cardinality(LeftOut(c)) = c.draw.items - Cardinality(c.hits)
<1>1. c.draw.items \in Nat
  BY DEF Campaign, Draw
<1> DEFINE all == 1 .. c.draw.items
<1>2. IsFiniteSet(all) /\ Cardinality(all) = c.draw.items
  BY <1>1, OneTo
<1>3. Cardinality(c.hits) \in Nat
  BY <1>1, FiniteWithin
<1>4. LeftOut(c) = all \ c.hits /\ all \cap c.hits = c.hits
  BY DEF LeftOut
<1> HIDE DEF all
<1>5. Cardinality(all \ c.hits) = Cardinality(all) - Cardinality(all \cap c.hits)
  BY <1>2, FS_Difference
<1>6. QED
  BY <1>2, <1>3, <1>4, <1>5

LEMMA WholeSchedule ==
    ASSUME NEW name \in Names, NEW c, CampaignInv(name, c),
           Registry[name].kind = "brute", c.pc = "done"
    PROVE  /\ c.landed + Unsure(c) >= MinAttempts
           /\ Cardinality(c.hits) + Unsure(c) >= MinDistinct
<1>1. /\ c.draw \in Registry[name].draws /\ c \in Campaign
      /\ c.hits \subseteq 1 .. c.draw.items
      /\ c.landed + Unsure(c) + c.again + Cardinality(c.fresh) >= Length(c.draw)
      /\ c.fresh = {} /\ c.again = 0
      /\ Cardinality(LeftOut(c)) <= Unsure(c)
  BY DEF CampaignInv, OnSchedule, Spent
<1>2. /\ c.draw.items \in Nat /\ c.draw.attempts \in Nat /\ c.landed \in Nat
      /\ Unsure(c) \in Nat
  BY <1>1, UnsureType DEF Campaign, Draw
<1>3. c.landed + Unsure(c) >= Length(c.draw)
  BY <1>1, <1>2, FS_EmptySet DEF Length
<1>4. Cardinality(c.hits) + Unsure(c) >= c.draw.items
  BY <1>1, <1>2, HitsAndLeftOut
<1>5. /\ c.draw.items >= MinDistinct
      /\ c.draw.attempts >= MinAttempts \/ c.draw.items >= MinAttempts
  BY <1>1, ThresholdAssumption DEF ThresholdAssumption
<1>6. MinAttempts \in Nat /\ MinDistinct \in Nat
  BY AttackSimAssumption DEF AttackSimAssumption
<1>7. c.landed + Unsure(c) >= MinAttempts
  BY <1>2, <1>3, <1>5, <1>6 DEF Length
<1>8. Cardinality(c.hits) + Unsure(c) >= MinDistinct
  <2>1. Cardinality(c.hits) \in Nat
    BY <1>1, HitsAndLeftOut
  <2>2. QED
    BY <1>2, <1>4, <1>5, <1>6, <2>1
<1>9. QED
  BY <1>7, <1>8

(* A brute force falls short of the rule it is to trip by no more than it    *)
(* has lost (generators.py:20-23, 52-58, 110-119).                           *)
THEOREM BruteTrips == Spec => []BruteTripsRule
<1>1. Inv => BruteTripsRule
  BY PlannedName, WholeSchedule DEF BruteTripsRule, Kind
<1>2. QED
  BY <1>1, Invariance, PTL

LEMMA GuessesEnough ==
    ASSUME NEW name \in Names, NEW c, CampaignInv(name, c),
           Registry[name].kind = "dropper", c.pc = "done", c.left > 0
    PROVE  \/ c.grant <= Cardinality(c.hits) /\ Unsure(c) > 0
           \/ Unsure(c) > c.draw.items - c.grant
<1>1. /\ c \in Campaign /\ c.hits \subseteq 1 .. c.draw.items /\ c.fresh = {}
      /\ Cardinality(LeftOut(c)) <= Unsure(c)
      /\ Unsure(c) = 0 => Cardinality(c.hits) < c.grant
  BY DEF CampaignInv, Spent, Refused
<1>2. c.draw.items \in Nat /\ c.grant \in Nat /\ Unsure(c) \in Nat
  BY <1>1, UnsureType DEF Campaign, Draw
<1>3. /\ Cardinality(c.hits) \in Nat
      /\ Cardinality(LeftOut(c)) = c.draw.items - Cardinality(c.hits)
  BY <1>1, HitsAndLeftOut
<1>4. QED
  BY <1>1, <1>2, <1>3

(* A dropper that ends without its commands lost the answer that let it in,  *)
(* or more guesses than it has to spare, whatever Cowrie grants and whatever *)
(* is lost (generators.py:122-131, ssh_client.py:124-148).                   *)
THEOREM DroppersGetIn == Spec => []DropperGetsIn
<1>1. Inv => DropperGetsIn
  BY PlannedName, GuessesEnough DEF DropperGetsIn, Kind
<1>2. QED
  BY <1>1, Invariance, PTL

-----------------------------------------------------------------------------
(* The manifest.                                                             *)

(* What it says of the campaigns once one of them has moved.                 *)
LEMMA OneMoves ==
    ASSUME Inv, NEW n \in Campaigns, NEW after,
           campaign' = [campaign EXCEPT ![n] = after], UNCHANGED plan
    PROVE  /\ Campaigns' = Campaigns /\ campaign'[n] = after
           /\ \A m \in Campaigns : m # n => campaign'[m] = campaign[m]
<1>1. campaign \in Seq(Campaign) /\ Len(campaign) = Len(plan) /\ Campaigns = 1 .. Len(plan)
  BY DEF Inv, TypeOK, Campaigns
<1>2. DOMAIN campaign = Campaigns
  BY <1>1
<1>3. QED
  BY <1>2 DEF Campaigns

LEMMA TakeAdds ==
    ASSUME Inv, Take
    PROVE  /\ Campaigns' = Campaigns \cup {Len(plan) + 1} /\ Len(plan) + 1 \notin Campaigns
           /\ campaign'[Len(plan) + 1] = Idle
           /\ \A n \in Campaigns : plan'[n] = plan[n] /\ campaign'[n] = campaign[n]
<1>1. /\ plan \in Seq([name : Names, source : Sources]) /\ campaign \in Seq(Campaign)
      /\ Len(plan) \in Nat /\ Len(campaign) = Len(plan) /\ Campaigns = 1 .. Len(plan)
  BY DEF Inv, TypeOK, Campaigns
<1>2. Idle \in Campaign
  BY DEF Idle, Campaign, Draw
<1>3. /\ Len(campaign') = Len(plan) + 1 /\ campaign'[Len(plan) + 1] = Idle
      /\ \A n \in Campaigns : campaign'[n] = campaign[n]
  BY <1>1, <1>2, AppendProperties DEF Take
<1>4. \E e \in [name : Names, source : Sources] : plan' = Append(plan, e)
  <2> DEFINE next == CHOOSE name \in Names : todo[name] > 0
  <2>1. next \in Names
    BY DEF Take, Planned, Inv, TypeOK
  <2>2. PICK s \in train \cup heldout : plan' = Append(plan, [name |-> next, source |-> s])
    BY DEF Take
  <2> HIDE DEF next
  <2>3. [name |-> next, source |-> s] \in [name : Names, source : Sources]
    BY <2>1, <2>2 DEF Inv, TypeOK, Sources
  <2>4. QED
    BY <2>2, <2>3
<1>5. /\ plan' \in Seq([name : Names, source : Sources]) /\ Len(plan') = Len(plan) + 1
      /\ \A n \in Campaigns : plan'[n] = plan[n]
  BY <1>1, <1>4, AppendProperties
<1>6. Campaigns' = 1 .. Len(plan) + 1
  BY <1>5 DEF Campaigns
<1>7. QED
  BY <1>1, <1>3, <1>5, <1>6

(* The steps that leave the campaigns alone.                                 *)
Quiet ==
    \/ ReadArguments \/ Exhausted \/ PlanReady \/ Probe \/ Gathered
    \/ WriteRows \/ WriteSummary \/ ProbeFails \/ WriteFails \/ Interrupt
    \/ \E n \in Campaigns : Raises(n)

LEMMA QuietStays == Quiet => UNCHANGED <<plan, campaign, records>>
  BY DEF Quiet, ReadArguments, Exhausted, PlanReady, Probe, Gathered, WriteRows, WriteSummary,
         ProbeFails, WriteFails, Interrupt, Raises

LEMMA StepIs ==
    ASSUME [Next]_vars
    PROVE  \/ UNCHANGED vars \/ Take \/ Quiet
           \/ \E n \in Campaigns : Going(n) \/ Finish(n)
  BY DEF Next, Going, GoingOn, Quiet

Done == {n \in Campaigns : campaign[n].pc = "done"}

(* As many records as campaigns that have ended, and for each of these one   *)
(* that is its own; nothing is on disk before all have.                      *)
Recorded ==
    /\ Len(records) = Cardinality(Done)
    /\ \A n \in Done : \E m \in DOMAIN records : records[m] = RecordOf(n)
    /\ phase # "end" => exit = -1
    /\ phase \notin {"write", "end"} => jsonl = <<>>
    /\ phase = "write" => Done = Campaigns /\ jsonl \in {<<>>, records}
    /\ exit = 0 => Done = Campaigns /\ jsonl = records /\ summary = Len(records)

LEMMA DoneFinite ==
    ASSUME Inv
    PROVE  IsFiniteSet(Done) /\ Cardinality(Done) \in Nat
<1>1. Len(plan) \in Nat /\ Done \subseteq 1 .. Len(plan)
  BY DEF Inv, TypeOK, Done, Campaigns
<1>2. QED
  BY <1>1, FiniteWithin

(* A step after which the same campaigns have ended, all of them as they     *)
(* were.                                                                     *)
LEMMA SameDone ==
    ASSUME Recorded, Done' = Done, UNCHANGED records,
           \A n \in Done : RecordOf(n)' = RecordOf(n)
    PROVE  /\ Len(records') = Cardinality(Done')
           /\ \A n \in Done' : \E m \in DOMAIN records' : records'[m] = RecordOf(n)'
  BY DEF Recorded

LEMMA QuietRecorded ==
    ASSUME Inv, Recorded, Quiet
    PROVE  Recorded'
<1>1. UNCHANGED <<plan, campaign, records>>
  BY QuietStays
<1>2. Done' = Done /\ Campaigns' = Campaigns
  BY <1>1 DEF Done, Campaigns
<1>3. /\ Len(records') = Cardinality(Done')
      /\ \A n \in Done' : \E m \in DOMAIN records' : records'[m] = RecordOf(n)'
  <2>1. \A n \in Done : RecordOf(n)' = RecordOf(n)
    BY <1>1 DEF RecordOf
  <2>2. QED
    BY <1>1, <1>2, <2>1, SameDone
<1>4. records \in Seq(Record) /\ jsonl \in Seq(Record) /\ Len(records) \in Nat
  BY DEF Inv, TypeOK
<1>5. CASE \/ ReadArguments \/ Exhausted \/ PlanReady \/ Probe \/ ProbeFails
           \/ WriteFails \/ Interrupt \/ \E n \in Campaigns : Raises(n)
  <2>1. phase # "end"
    BY <1>5 DEF ReadArguments, Exhausted, PlanReady, Probe, ProbeFails, WriteFails, Interrupt,
                Raises
  <2>2. phase' \in {"plan", "probe", "run", "end"}
    BY <1>5 DEF ReadArguments, Exhausted, PlanReady, Probe, ProbeFails, WriteFails, Interrupt,
                Raises, End
  <2>3. phase' # "end" => exit' = exit /\ jsonl' = jsonl /\ phase \notin {"write", "end"}
    BY <1>5 DEF ReadArguments, Exhausted, PlanReady, Probe, ProbeFails, WriteFails, Interrupt,
                Raises, End, files
  <2>4. phase' = "end" => exit' \in {1, 2, 130}
    BY <1>5 DEF ReadArguments, Exhausted, PlanReady, Probe, ProbeFails, WriteFails, Interrupt,
                Raises, End
  <2>5. phase' # "end" => exit' = -1 /\ jsonl' = <<>>
    BY <2>1, <2>2, <2>3 DEF Recorded
  <2>6. exit' # 0
    BY <2>2, <2>4, <2>5
  <2>7. QED
    BY <1>3, <2>2, <2>5, <2>6 DEF Recorded
<1>6. CASE Gathered
  <2>1. Done = Campaigns /\ phase = "run" /\ phase' = "write" /\ UNCHANGED <<exit, jsonl>>
    BY <1>6 DEF Gathered, Done, files
  <2>2. jsonl' = <<>> /\ exit' = -1
    BY <2>1 DEF Recorded
  <2>3. QED
    BY <1>2, <1>3, <2>1, <2>2 DEF Recorded
<1>7. CASE WriteRows
  <2>1. phase = "write" /\ phase' = "write" /\ exit' = exit /\ jsonl' = records
    BY <1>7 DEF WriteRows
  <2>2. exit' = -1 /\ Done = Campaigns
    BY <2>1 DEF Recorded
  <2>3. QED
    BY <1>1, <1>2, <1>3, <2>1, <2>2 DEF Recorded
<1>8. CASE WriteSummary
  <2>1. /\ phase = "write" /\ phase' = "end" /\ jsonl' = jsonl /\ Len(jsonl) = Len(records)
        /\ summary' = Len(records)
    BY <1>8 DEF WriteSummary, End
  <2>2. Done = Campaigns /\ jsonl \in {<<>>, records}
    BY <2>1 DEF Recorded
  <2>3. jsonl = records
    <3>1. CASE jsonl = <<>>
      <4>1. Len(records) = 0
        BY <2>1, <3>1
      <4>2. QED
        BY <1>4, <3>1, <4>1, EmptySeq
    <3>2. QED
      BY <2>2, <3>1
  <2>4. QED
    BY <1>1, <1>2, <1>3, <2>1, <2>2, <2>3 DEF Recorded
<1>9. QED
  BY <1>5, <1>6, <1>7, <1>8 DEF Quiet

LEMMA TakeRecorded ==
    ASSUME Inv, Recorded, Take
    PROVE  Recorded'
<1>1. /\ Campaigns' = Campaigns \cup {Len(plan) + 1}
      /\ campaign'[Len(plan) + 1] = Idle
      /\ \A n \in Campaigns : plan'[n] = plan[n] /\ campaign'[n] = campaign[n]
  BY TakeAdds
<1>2. Idle.pc # "done"
  BY DEF Idle
<1>3. Done' = Done
  BY <1>1, <1>2 DEF Done
<1>4. \A n \in Done : RecordOf(n)' = RecordOf(n)
  BY <1>1 DEF RecordOf, Done
<1>5. phase = "plan" /\ UNCHANGED <<phase, exit, records, jsonl>>
  BY DEF Take, files
<1>6. /\ Len(records') = Cardinality(Done')
      /\ \A n \in Done' : \E m \in DOMAIN records' : records'[m] = RecordOf(n)'
  BY <1>3, <1>4, <1>5, SameDone
<1>7. exit' = -1 /\ jsonl' = <<>>
  BY <1>5 DEF Recorded
<1>8. QED
  BY <1>5, <1>6, <1>7 DEF Recorded

LEMMA GoingRecorded ==
    ASSUME Inv, Recorded, NEW n \in Campaigns, Going(n)
    PROVE  Recorded'
<1>1. /\ \E after : Moves(n, after)
      /\ campaign[n].pc \in {"waiting", "sending", "shell"} /\ phase = "run"
      /\ UNCHANGED <<phase, exit, plan, records, files>>
  BY GoingMoves
<1>2. PICK after : Moves(n, after)
  BY <1>1
<1>3. campaign' = [campaign EXCEPT ![n] = after] /\ after.pc # "done"
  BY <1>2 DEF Moves
<1>4. /\ Campaigns' = Campaigns /\ campaign'[n] = after
      /\ \A m \in Campaigns : m # n => campaign'[m] = campaign[m]
  BY <1>1, <1>3, OneMoves
<1>5. Done' = Done /\ n \notin Done
  BY <1>1, <1>3, <1>4 DEF Done
<1>6. \A m \in Done : RecordOf(m)' = RecordOf(m)
  BY <1>1, <1>4, <1>5 DEF RecordOf, Done
<1>7. /\ Len(records') = Cardinality(Done')
      /\ \A m \in Done' : \E k \in DOMAIN records' : records'[k] = RecordOf(m)'
  BY <1>1, <1>5, <1>6, SameDone
<1>8. exit' = -1 /\ jsonl' = <<>> /\ phase' = "run"
  BY <1>1 DEF Recorded, files
<1>9. QED
  BY <1>7, <1>8 DEF Recorded

LEMMA FinishRecorded ==
    ASSUME Inv, Recorded, NEW n \in Campaigns, Finish(n)
    PROVE  Recorded'
<1> DEFINE c == campaign[n]
           after == [c EXCEPT !.pc = "done"]
<1>1. /\ c \in Campaign /\ c.pc # "done" /\ campaign' = [campaign EXCEPT ![n] = after]
      /\ records' = Append(records, RecordOf(n)) /\ phase = "run"
      /\ UNCHANGED <<phase, exit, plan, files>>
  BY PlannedName DEF Finish, Over
<1>2. after.pc = "done" /\ after.sent = c.sent /\ after.failed = c.failed
  BY <1>1 DEF Campaign
<1> HIDE DEF after
<1>3. /\ Campaigns' = Campaigns /\ campaign'[n] = after
      /\ \A m \in Campaigns : m # n => campaign'[m] = campaign[m]
  BY <1>1, OneMoves
<1>4. Done' = Done \cup {n} /\ n \notin Done
  BY <1>1, <1>2, <1>3 DEF Done
<1>5. \A m \in Done' : RecordOf(m)' = RecordOf(m)
  <2>1. RecordOf(n)' = RecordOf(n)
    BY <1>1, <1>2, <1>3 DEF RecordOf
  <2>2. \A m \in Done : RecordOf(m)' = RecordOf(m)
    BY <1>1, <1>3, <1>4 DEF RecordOf, Done
  <2>3. QED
    BY <1>4, <2>1, <2>2
<1>6. /\ records \in Seq(Record) /\ Len(records) \in Nat /\ DOMAIN records = 1 .. Len(records)
      /\ RecordOf(n) \in Record
  <2>1. /\ plan[n].name \in Names /\ plan[n].source \in Sources
        /\ c.sent \in Nat /\ c.failed \in Nat
    BY <1>1, PlannedName DEF Campaign
  <2>2. RecordOf(n) \in Record
    BY <2>1 DEF Record, RecordOf
  <2>3. QED
    BY <2>2 DEF Inv, TypeOK
<1>7. /\ Len(records') = Len(records) + 1 /\ records'[Len(records) + 1] = RecordOf(n)
      /\ \A m \in 1 .. Len(records) : records'[m] = records[m]
      /\ DOMAIN records' = 1 .. Len(records) + 1
  BY <1>1, <1>6, AppendProperties
<1>8. Len(records') = Cardinality(Done')
  <2>1. IsFiniteSet(Done)
    BY DoneFinite
  <2>2. Cardinality(Done \cup {n}) = Cardinality(Done) + 1
    BY <1>4, <2>1, FS_AddElement
  <2>3. Len(records) = Cardinality(Done)
    BY DEF Recorded
  <2>4. QED
    BY <1>4, <1>7, <2>2, <2>3
<1>9. \A m \in Done' : \E k \in DOMAIN records' : records'[k] = RecordOf(m)'
  <2>1. \A m \in Done : \E k \in DOMAIN records' : records'[k] = RecordOf(m)
    BY <1>6, <1>7 DEF Recorded
  <2>2. \E k \in DOMAIN records' : records'[k] = RecordOf(n)
    BY <1>6, <1>7
  <2>3. QED
    BY <1>4, <1>5, <2>1, <2>2
<1>10. exit' = -1 /\ jsonl' = <<>> /\ phase' = "run"
  BY <1>1 DEF Recorded, files
<1>11. QED
  BY <1>8, <1>9, <1>10 DEF Recorded

LEMMA StepRecorded == Inv /\ Recorded /\ [Next]_vars => Recorded'
<1> SUFFICES ASSUME Inv, Recorded, [Next]_vars PROVE Recorded'
  OBVIOUS
<1>1. CASE UNCHANGED vars
  <2>1. UNCHANGED <<plan, campaign, records, phase, exit, jsonl, summary>>
    BY <1>1 DEF vars, files
  <2>2. Campaigns' = Campaigns
    BY <2>1 DEF Campaigns
  <2>3. Done' = Done
    BY <2>1, <2>2 DEF Done
  <2>4. \A n \in Done : RecordOf(n)' = RecordOf(n)
    BY <2>1 DEF RecordOf
  <2>5. /\ Len(records') = Cardinality(Done')
        /\ \A n \in Done' : \E m \in DOMAIN records' : records'[m] = RecordOf(n)'
    BY <2>1, <2>3, <2>4, SameDone
  <2>6. QED
    BY <2>1, <2>2, <2>3, <2>5 DEF Recorded
<1>2. CASE \E n \in Campaigns : Going(n) \/ Finish(n)
  BY <1>2, GoingRecorded, FinishRecorded
<1>3. QED
  BY <1>1, <1>2, StepIs, TakeRecorded, QuietRecorded

LEMMA InitRecorded == Init => Recorded
<1> SUFFICES ASSUME Init PROVE Recorded
  OBVIOUS
<1>1. Done = {} /\ Len(records) = 0
  BY DEF Init, Done, Campaigns
<1>2. QED
  BY <1>1, FS_EmptySet DEF Init, Recorded

(* A run that exits with 0 has written one row for each of its sources, with *)
(* its label, its range and counts that account for all its traffic, through *)
(* any mix, any concurrency and any faults (manifest.py:1-11, runner.py:     *)
(* 98-110, 174-201).                                                         *)
THEOREM ManifestComplete == Spec => []ManifestTellsAll
<1>1. Inv /\ Recorded => ManifestTellsAll
  <2>1. SUFFICES ASSUME Inv, Recorded, exit = 0 PROVE ManifestTellsAll
    BY DEF ManifestTellsAll
  <2>2. Done = Campaigns /\ jsonl = records /\ summary = Len(records)
    BY <2>1 DEF Recorded
  <2>3. Len(jsonl) = Len(plan) /\ summary = Len(plan)
    <3>1. Campaigns = 1 .. Len(plan) /\ Len(plan) \in Nat
      BY <2>1 DEF Inv, TypeOK, Campaigns
    <3>2. Cardinality(Done) = Len(plan)
      BY <2>2, <3>1, OneTo
    <3>3. QED
      BY <2>1, <2>2, <3>2 DEF Recorded
  <2>4. ASSUME NEW n \in Campaigns
        PROVE  \E m \in DOMAIN jsonl :
                   /\ jsonl[m].source = plan[n].source
                   /\ jsonl[m].label = Registry[plan[n].name].label
                   /\ jsonl[m].held_out <=> plan[n].source \in HeldOut
                   /\ campaign[n].landed <= jsonl[m].sent + jsonl[m].failed
    <3>1. PICK m \in DOMAIN jsonl : jsonl[m] = RecordOf(n)
      BY <2>1, <2>2 DEF Recorded
    <3>2. campaign[n].landed <= campaign[n].sent + campaign[n].failed
      BY <2>1 DEF Inv, CampaignInv, Counts
    <3>3. /\ RecordOf(n).source = plan[n].source
          /\ RecordOf(n).label = Registry[plan[n].name].label
          /\ RecordOf(n).held_out <=> plan[n].source \in HeldOut
          /\ RecordOf(n).sent = campaign[n].sent /\ RecordOf(n).failed = campaign[n].failed
      BY DEF RecordOf
    <3>4. QED
      BY <3>1, <3>2, <3>3
  <2>5. QED
    BY <2>3, <2>4 DEF ManifestTellsAll
<1>2. QED
  BY <1>1, InitRecorded, StepRecorded, Invariance, PTL DEF Spec
=============================================================================
