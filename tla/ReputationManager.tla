-------------------------- MODULE ReputationManager --------------------------
(***************************************************************************)
(* The bundler's ReputationManager: per entity (sender, paymaster, factory *)
(* or aggregator) it counts the operations seen in the mempool and the     *)
(* operations found on chain, and derives OK / THROTTLED / BANNED.         *)
(*                                                                         *)
(* JavaScript runs each method to completion, so every method is one       *)
(* action.  The transformers on the table of entries (CountSeen, Crash...) *)
(* are operators on their own: the modules that extend this one chain them *)
(* inside longer synchronous steps.                                        *)
(*                                                                         *)
(* Addresses are the program's texts: two spellings of one address are two *)
(* members of Addr.  The getter dump() changes nothing and is left out.    *)
(***************************************************************************)
EXTENDS Integers, FiniteSets

CONSTANTS
    Addr,                     \* address texts
    NoAddr,                   \* null / undefined
    MinInclusionDenominator,  \* ReputationParams
    ThrottlingSlack,
    BanSlack,
    MinStake,
    MinUnstakeDelay,
    ConfigWhitelist,          \* lists of the configuration file
    ConfigBlacklist,
    DumpCounts,               \* counter values an operator's dump may hold
    MaxOps                    \* bound: the counters stop growing here

ASSUME NoAddrAssumption == NoAddr \notin Addr
ASSUME ParamsAssumption ==
    /\ MinInclusionDenominator \in Nat \ {0}
    /\ ThrottlingSlack \in Nat
    /\ BanSlack \in Nat
    /\ MinStake \in Nat
    /\ MinUnstakeDelay \in Nat
    /\ DumpCounts \subseteq Nat
    /\ MaxOps \in Nat
ASSUME ListsAssumption ==
    ConfigWhitelist \subseteq Addr /\ ConfigBlacklist \subseteq Addr

VARIABLES
    entries,     \* partial function: address -> [opsSeen, opsIncluded]
    whitelist,
    blackList

repVars == <<entries, whitelist, blackList>>

OK == "OK"
THROTTLED == "THROTTLED"
BANNED == "BANNED"

ReputationEntry == [opsSeen : Nat, opsIncluded : Nat]

NoEntries == [a \in {} |-> [opsSeen |-> 0, opsIncluded |-> 0]]

(* What the program knows of a stake: StakeInfo of the validation result.  *)
StakeInfo == [addr : Addr \cup {NoAddr}, stake : Nat, unstakeDelaySec : Nat]

---------------------------------------------------------------------------
(* Transformers of the table.                                              *)

EntryOf(es, a) ==
    IF a \in DOMAIN es THEN es[a] ELSE [opsSeen |-> 0, opsIncluded |-> 0]

Put(es, a, e) == [b \in DOMAIN es \cup {a} |-> IF b = a THEN e ELSE es[b]]

CountSeen(es, a) ==
    IF a = NoAddr THEN es
    ELSE Put(es, a, [EntryOf(es, a) EXCEPT !.opsSeen = @ + 1])

CountIncluded(es, a) ==
    Put(es, a, [EntryOf(es, a) EXCEPT !.opsIncluded = @ + 1])

Crash(es, a) ==
    IF a = NoAddr THEN es
    ELSE Put(es, a, [opsSeen |-> 100, opsIncluded |-> 0])

(* Mutants: an hourly decrement, a cron that forgets opsSeen, and one that  *)
(* does what the comment says.                                              *)
BackOffByOne(e) ==
    [opsSeen |-> e.opsSeen - 1, opsIncluded |-> (e.opsIncluded * 23) \div 24]

BackOffIncludedOnly(e) ==
    [opsSeen |-> e.opsSeen, opsIncluded |-> (e.opsIncluded * 23) \div 24]

BackOffEach(e) ==
    [opsSeen |-> (e.opsSeen * 23) \div 24, opsIncluded |-> (e.opsIncluded * 23) \div 24]

(* The second assignment of hourlyCron reads the opsSeen the first wrote.  *)
BackOff(e) ==
    LET seen == (e.opsSeen * 23) \div 24
    IN  [opsSeen |-> seen, opsIncluded |-> (seen * 23) \div 24]

Decayed(es) ==
    LET kept == {a \in DOMAIN es : BackOff(es[a]) # [opsSeen |-> 0, opsIncluded |-> 0]}
    IN  [a \in kept |-> BackOff(es[a])]

---------------------------------------------------------------------------
(* Queries.                                                                *)

(* The status of an entity from its counters alone. *)
EarnedStatus(e) ==
    LET minExpectedIncluded == e.opsSeen \div MinInclusionDenominator
    IN  IF minExpectedIncluded <= e.opsIncluded + ThrottlingSlack THEN OK
        ELSE IF minExpectedIncluded <= e.opsIncluded + BanSlack THEN THROTTLED
        ELSE BANNED

GetStatus(es, a) ==
    IF a = NoAddr \/ a \in whitelist THEN OK
    ELSE IF a \in blackList THEN BANNED
    ELSE IF a \notin DOMAIN es THEN OK
    ELSE EarnedStatus(es[a])

(* Mutant: the stake is not compared. *)
AnyStakeAccepted(es, info) ==
    info.addr = NoAddr \/ info.addr \in whitelist \/ GetStatus(es, info.addr) # BANNED

(* checkStake returns; otherwise it throws. *)
StakeAccepted(es, info) ==
    \/ info.addr = NoAddr
    \/ info.addr \in whitelist
    \/ /\ GetStatus(es, info.addr) # BANNED
       /\ info.stake >= MinStake
       /\ info.unstakeDelaySec >= MinUnstakeDelay

---------------------------------------------------------------------------
(* The methods.                                                            *)

RepInit ==
    /\ entries = NoEntries
    /\ whitelist = ConfigWhitelist
    /\ blackList = ConfigBlacklist

UpdateSeenStatus(a) ==
    /\ EntryOf(entries, a).opsSeen < MaxOps
    /\ entries' = CountSeen(entries, a)
    /\ UNCHANGED <<whitelist, blackList>>

UpdateIncludedStatus(a) ==
    /\ EntryOf(entries, a).opsIncluded < MaxOps
    /\ entries' = CountIncluded(entries, a)
    /\ UNCHANGED <<whitelist, blackList>>

CrashedHandleOps(a) ==
    /\ entries' = Crash(entries, a)
    /\ UNCHANGED <<whitelist, blackList>>

HourlyCron ==
    /\ entries' = Decayed(entries)
    /\ UNCHANGED <<whitelist, blackList>>

RepClearState ==
    /\ entries' = NoEntries
    /\ UNCHANGED <<whitelist, blackList>>

(* setReputation puts the entries of a dump over the present ones. *)
SetReputation(dump) ==
    /\ entries' = [a \in DOMAIN entries \cup DOMAIN dump |->
                      IF a \in DOMAIN dump THEN dump[a] ELSE entries[a]]
    /\ UNCHANGED <<whitelist, blackList>>

AddWhitelist(a) ==
    /\ whitelist' = whitelist \cup {a}
    /\ UNCHANGED <<entries, blackList>>

AddBlacklist(a) ==
    /\ blackList' = blackList \cup {a}
    /\ UNCHANGED <<entries, whitelist>>

(* A dump restores the counters of one entity. *)
Dump(a) == [{a} -> [opsSeen : DumpCounts, opsIncluded : DumpCounts]]

RepNext ==
    \/ \E a \in Addr :
          \/ UpdateSeenStatus(a)
          \/ UpdateIncludedStatus(a)
          \/ CrashedHandleOps(a)
          \/ AddWhitelist(a)
          \/ AddBlacklist(a)
          \/ \E dump \in Dump(a) : SetReputation(dump)
    \/ HourlyCron
    \/ RepClearState

RepSpec == RepInit /\ [][RepNext]_repVars

---------------------------------------------------------------------------
(* Properties.                                                             *)

(* The table is a partial function from addresses to pairs of counters, and *)
(* the two lists hold addresses.                                            *)
RepTypeOK ==
    /\ DOMAIN entries \subseteq Addr
    /\ entries \in [DOMAIN entries -> ReputationEntry]
    /\ whitelist \subseteq Addr
    /\ blackList \subseteq Addr

Severity(status) ==
    CASE status = OK -> 0 [] status = THROTTLED -> 1 [] status = BANNED -> 2

(* What is done to forgive never hurts: an inclusion, a cron step (although *)
(* it lowers the included count too) and whatever is recorded of somebody   *)
(* else leave an entity's standing as good as it was, or better.            *)
ForgivingStepsNeverWorsen ==
    [][\A a \in Addr :
          \/ HourlyCron
          \/ \E b \in Addr : UpdateIncludedStatus(b)
          \/ \E b \in Addr \ {a} :
                UpdateSeenStatus(b) \/ CrashedHandleOps(b) \/ AddBlacklist(b)
          => Severity(GetStatus(entries, a)') <= Severity(GetStatus(entries, a))]_repVars

(* A ban by counters lasts until the next cron step, however many failures  *)
(* it stands for: the cron derives the inclusions from the operations seen, *)
(* so after it everybody off the black list has status OK.                  *)
BanEndsAtCron ==
    [][HourlyCron => \A a \in Addr \ blackList : GetStatus(entries, a)' = OK]_repVars
=============================================================================
