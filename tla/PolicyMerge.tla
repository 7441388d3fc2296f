----------------------------- MODULE PolicyMerge -----------------------------
(***************************************************************************)
(* The policy that --config files make: each file is decoded, the files    *)
(* are merged in order, and the result gets its defaults and is validated. *)
(*                                                                         *)
(* A policy groups its fields by how they are merged: text (the scalar     *)
(* strings, "" when absent), number (threshold, scores and the egress      *)
(* score, 0 when absent), list, and the flag egress.enabled.  What the     *)
(* string functions do to a value is given by the constants: only which    *)
(* values they make equal matters.                                         *)
(***************************************************************************)
EXTENDS Integers, Sequences, Functions

CONSTANTS
    Trimmed,    \* what TrimSpace makes of a string it changes
    Lowered,    \* what ToLower makes of a string it changes
    Dotted,     \* the extensions without a leading dot, and their dotted form
    Durations,  \* what ParseDuration makes of a string it accepts, in seconds
    CIDRs       \* the strings ParseCIDR accepts

ASSUME TextAssumption ==
    /\ \A f \in {Trimmed, Lowered} : \A s \in DOMAIN f : f[s] \notin DOMAIN f
    /\ \A d \in DOMAIN Durations : Durations[d] \in Int

ScoreFields == {"write", "truncate", "rename", "unlink", "self_protect",
    "suspicious_extension", "ransom_note", "backup_destroy", "high_rate_bonus",
    "exec_after_blocked", "scan", "mmap", "io_uring", "network_egress"}

TextFields == {"description", "window", "action", "block_ttl", "blacklist_scan"}
NumberFields == ScoreFields \cup {"threshold", "egress"}
ListFields == {"name", "protected_dirs", "backup_dirs", "self_protect_paths",
    "cgroup_paths", "trusted_processes", "trusted_exe_paths", "trusted_uids",
    "blacklist_hashes", "blacklist_hash_files", "suspicious_extensions",
    "ransom_note_names", "rules", "cidrs", "ports"}

NoPolicy ==
    [text |-> [f \in TextFields |-> ""], number |-> [f \in NumberFields |-> 0],
     list |-> [f \in ListFields |-> <<>>], enabled |-> FALSE]

TrimSpace(s) == IF s \in DOMAIN Trimmed THEN Trimmed[s] ELSE s
Fold(s) ==
    LET t == TrimSpace(s) IN IF t \in DOMAIN Lowered THEN Lowered[t] ELSE t
Dot(s) == IF s \in DOMAIN Dotted THEN Dotted[s] ELSE s
Map(Op(_), s) == [i \in DOMAIN s |-> Op(s[i])]

-----------------------------------------------------------------------------
(* mergePolicies *)

MutZeroOverrides(base, override) ==
    [base EXCEPT !.number = override.number,
                 !.list = [f \in ListFields |-> base.list[f] \o override.list[f]]]

\* Later values that are present replace, lists grow, enabled is sticky.
Merge(base, override) ==
    [text |-> [f \in TextFields |->
         IF override.text[f] # "" THEN override.text[f] ELSE base.text[f]],
     number |-> [f \in NumberFields |->
         IF override.number[f] # 0 THEN override.number[f] ELSE base.number[f]],
     list |-> [f \in ListFields |-> base.list[f] \o override.list[f]],
     enabled |-> base.enabled \/ override.enabled]

\* The files are merged one after the other.
Merged(policies) ==
    LET merged[n \in 0 .. Len(policies)] ==
            IF n = 0 THEN NoPolicy ELSE Merge(merged[n - 1], policies[n])
    IN  merged

MergePolicies(policies) == Merged(policies)[Len(policies)]

-----------------------------------------------------------------------------
(* normalize *)

DefaultText == [description |-> "", window |-> "10s", action |-> "log",
                block_ttl |-> "10m", blacklist_scan |-> "5s"]

DefaultNumber(p) ==
    [threshold |-> 45, write |-> 1, truncate |-> 6, rename |-> 8, unlink |-> 8,
     self_protect |-> 50, suspicious_extension |-> 10, ransom_note |-> 20,
     backup_destroy |-> 20, high_rate_bonus |-> 15, exec_after_blocked |-> 10,
     scan |-> 1, mmap |-> 3, io_uring |-> 1, network_egress |-> 5,
     egress |-> IF p.number["network_egress"] # 0 THEN p.number["network_egress"] ELSE 5]

\* A rule without an action of its own takes the policy's; "block" is "deny".
NormalRule(rule, action) ==
    LET own == Fold(rule.action)
    IN  [rule EXCEPT !.feature = Fold(@), !.op = TrimSpace(@),
                     !.action = CASE own = "" -> action
                                  [] own = "block" -> "deny"
                                  [] OTHER -> own,
                     !.reason = IF @ = "" THEN rule.name ELSE @]

WithDefaults(p) ==
    LET action == Fold(IF p.text["action"] = "" THEN DefaultText.action ELSE p.text["action"])
        Rule(r) == NormalRule(r, action)
    IN  [p EXCEPT
         !.text = [f \in TextFields |-> CASE f = "action" -> action
                                          [] p.text[f] = "" -> DefaultText[f]
                                          [] OTHER -> p.text[f]],
         !.number = [f \in NumberFields |->
                        IF p.number[f] = 0 THEN DefaultNumber(p)[f] ELSE p.number[f]],
         !.list = [@ EXCEPT !["suspicious_extensions"] = Map(Dot, Map(Fold, @)),
                            !["ransom_note_names"] = Map(TrimSpace, @),
                            !["cidrs"] = Map(TrimSpace, @),
                            !["rules"] = Map(Rule, @)]]

ValidRule(rule) ==
    /\ rule.feature \in {"distinct_paths", "open_write_pairs", "rename_suffix_count"}
    /\ rule.op \in {">", ">=", "==", "<=", "<"}
    /\ rule.value >= 0
    /\ rule.action \in {"log", "deny", "kill"}

\* The scores the detector uses: egress takes the place of network_egress.
ValidScores(number) == \A f \in (ScoreFields \ {"network_egress"}) \cup {"egress"} : number[f] >= 0

Valid(p) ==
    /\ \A f \in {"window", "block_ttl", "blacklist_scan"} :
        p.text[f] \in DOMAIN Durations /\ Durations[p.text[f]] >= 0
    /\ Durations[p.text["window"]] > 0
    /\ p.number["threshold"] >= 0
    /\ p.text["action"] \in {"log", "deny", "kill"}
    /\ \A i \in DOMAIN p.list["cidrs"] : p.list["cidrs"][i] \in CIDRs
    /\ \A i \in DOMAIN p.list["ports"] : p.list["ports"][i] \in 1 .. 65535
    /\ ValidScores(p.number)
    /\ \A i \in DOMAIN p.list["rules"] : ValidRule(p.list["rules"][i])

-----------------------------------------------------------------------------
(* What the documents say of repeated --config flags, as a reference: the   *)
(* value of a scalar is that of the last file that has it, and a list has   *)
(* every file's entries, in the order of the files.                         *)

LastWith(policies, Has(_)) ==
    LET having == {i \in DOMAIN policies : Has(policies[i])}
    IN  IF having = {} THEN NoPolicy
        ELSE policies[CHOOSE i \in having : \A j \in having : j <= i]

DocumentedText(policies, f) ==
    LET Has(p) == p.text[f] # ""
        own == LastWith(policies, Has).text[f]
    IN  IF own = "" THEN DefaultText[f] ELSE IF f = "action" THEN Fold(own) ELSE own

DocumentedNumber(policies, f) ==
    LET Has(p) == p.number[f] # 0
    IN  LastWith(policies, Has).number[f]

\* The entries that list f has in the first n files.
Entries(policies, f) ==
    LET count[n \in 0 .. Len(policies)] ==
            IF n = 0 THEN 0 ELSE count[n - 1] + Len(policies[n].list[f])
    IN  count

DocumentedLength(policies, f) == Entries(policies, f)[Len(policies)]

\* Entry k of list f in file i stands after all entries of the files before.
DocumentedPlace(policies, f, i, k) == Entries(policies, f)[i - 1] + k
===============================================================================
