------------------------------ MODULE Aliases -------------------------------
(***************************************************************************)
(* Mail aliases: createMailAlias, group-bound aliases, and the agent's     *)
(* setAlias, which rewrites the domain's whole aliases file for one line.  *)
(* The agent serves its callers concurrently and takes no lock.            *)
(***************************************************************************)
EXTENDS Mailboxes

CONSTANTS
    Locals,     \* local parts of aliases
    Sisters,    \* addresses of other domains, the organization's mailboxes or nobody's
    Foreign     \* mailboxes of organizations that never have the domain

ASSUME AliasesAssumption ==
    /\ Foreign \cap (Addrs \cup Sisters) = {} /\ Sisters \cap Addrs = {}
    /\ None \notin Locals

Dests == SUBSET (Addrs \cup Sisters \cup Foreign)
File == [Locals -> Dests]          \* a line per local part, {} where there is none
NoLines == [l \in Locals |-> {}]

VARIABLES
    rows,     \* rows[l]: the mail_aliases row, or NoRow
    group,    \* addresses whose users are members of the group
    file,     \* the lines of the aliases file
    job       \* job[p]: the alias p is writing and the file content it computed

aliasVars == <<rows, group, file, job>>

Row == [dests: Dests, group: BOOLEAN]
NoRow == [group |-> FALSE]
Job == [local: Locals \cup {None}, dests: Dests, group: BOOLEAN, buf: File]
NoJob == [local |-> None, dests |-> {}, group |-> FALSE, buf |-> NoLines]

AliasTypeOK ==
    /\ rows \in [Locals -> Row \cup {NoRow}]
    /\ group \subseteq Addrs
    /\ file \in File
    /\ job \in [Procs -> Job]

AliasInit ==
    /\ rows = [l \in Locals |-> NoRow]
    /\ group \in {{}, SeedAddrs}
    /\ file = NoLines
    /\ job = [p \in Procs |-> NoJob]

-----------------------------------------------------------------------------
\* ListGroupMembers and ListMailIdentitiesByUsers: active identities, in any
\* domain of the organization p acts for, which may have lost this one.
GroupDestinations(p) ==
    LET active == {a \in group : ident[a] = "active"}
    IN  {here \cup elsewhere : here \in {active} \cup (IF Current(p) THEN {} ELSE {{}}),
                               elsewhere \in SUBSET Sisters}

\* Every destination has an identity row, of the organization p acts for; the
\* row's status is not looked at.  Of addresses in other domains either answer
\* is possible, and also of this one's once the domain was deleted: destinations
\* are looked up one by one, some perhaps before the deletion, others after the
\* name was registered anew.
ValidateAliasDestinations(p, dests) ==
    IF dests \cap Foreign # {} THEN {FALSE}
    ELSE IF ~Current(p) THEN BOOLEAN
    ELSE IF \E d \in dests \cap Addrs : ident[d] = "none" THEN {FALSE}
    ELSE IF dests \cap Sisters = {} THEN {TRUE}
    ELSE BOOLEAN

\* createMailAlias: the domain is read, then the body.
StartAlias(p) ==
    /\ Op[p] \in {"alias", "groupAlias"}
    /\ At(p, Op[p], None, "aliasCheck")
    /\ UNCHANGED aliasVars

\* The destinations, validated before the first effect.
CheckAlias(p) ==
    /\ pc[p] = "aliasCheck"
    /\ \E l \in Locals :
       \E dests \in IF Op[p] = "groupAlias" THEN GroupDestinations(p) ELSE Dests \ {{}} :
          \/ /\ TRUE \in ValidateAliasDestinations(p, dests)
             /\ job' = [job EXCEPT ![p] = [local |-> l, dests |-> dests,
                                           group |-> Op[p] = "groupAlias", buf |-> NoLines]]
             /\ Goto(p, "aliasRead")
          \/ /\ FALSE \in ValidateAliasDestinations(p, dests)
             /\ Goto(p, "failed") /\ UNCHANGED job
    /\ UNCHANGED <<mailDb, mta, rows, group, file>>

Reconciles(p) == Op[p] \in {"worker", "reconcile"}

\* Mutant: the file is rewritten from the one line at hand.
SetAliasOnly(p) ==
    /\ pc[p] = "aliasRead"
    /\ job' = [job EXCEPT ![p].buf = [NoLines EXCEPT ![job[p].local] = job[p].dests]]
    /\ Goto(p, "aliasTrunc")
    /\ UNCHANGED <<mailDb, mta, rows, group, file>>

\* setAlias: read the file and replace, append or drop one line ...  Without a
\* domain directory, or if the call does not arrive, nothing is written.
SetAliasRead(p) ==
    /\ pc[p] = "aliasRead"
    /\ \/ /\ "dir" \in installed
          /\ job' = [job EXCEPT ![p].buf = [file EXCEPT ![job[p].local] = job[p].dests]]
          /\ Goto(p, "aliasTrunc")
       \/ /\ "dir" \notin installed \/ AgentError
          /\ Goto(p, IF Reconciles(p) THEN "recAlias" ELSE "failed") /\ UNCHANGED job
    /\ UNCHANGED <<mailDb, mta, rows, group, file>>

\* ... then os.WriteFile: truncate ...
SetAliasTruncate(p) ==
    /\ pc[p] = "aliasTrunc"
    /\ file' = NoLines
    /\ Goto(p, "aliasWrite")
    /\ UNCHANGED <<mailDb, mta, rows, group, job>>

\* ... and write from offset 0; what another writer put there meanwhile is
\* overwritten, but for the tail of a longer content (kept here line by line: a
\* line cut in two has a shorter local part, or is none).  A caller whose answer
\* is lost, or whose SIGHUP failed, sees an error although the line is written.
SetAliasWrite(p) ==
    LET buf == job[p].buf
        tail == [l \in Locals |-> IF buf[l] # {} THEN buf[l] ELSE file[l]]
    IN
    /\ pc[p] = "aliasWrite"
    /\ file' \in {buf, tail}
    /\ \/ Goto(p, IF Reconciles(p) THEN "recAlias" ELSE "aliasRow")
       \/ AgentError /\ Goto(p, IF Reconciles(p) THEN "recAlias" ELSE "failed")
    /\ UNCHANGED <<mailDb, mta, rows, group, job>>

\* Mutant: the row refers to the domain by its name.
CreateMailAliasByName(p) ==
    LET j == job[p] IN
    /\ pc[p] = "aliasRow"
    /\ IF rows[j.local] = NoRow
       THEN /\ rows' = [rows EXCEPT ![j.local] = [dests |-> j.dests, group |-> j.group]]
            /\ Goto(p, "done")
       ELSE Goto(p, "failed") /\ UNCHANGED rows
    /\ UNCHANGED <<mailDb, mta, group, file, job>>

\* The row comes last: only then are its uniqueness and its domain checked.
CreateMailAlias(p) ==
    LET j == job[p] IN
    /\ pc[p] = "aliasRow"
    /\ IF Current(p) /\ rows[j.local] = NoRow
       THEN /\ rows' = [rows EXCEPT ![j.local] = [dests |-> j.dests, group |-> j.group]]
            /\ Goto(p, "done")
       ELSE Goto(p, "failed") /\ UNCHANGED rows
    /\ UNCHANGED <<mailDb, mta, group, file, job>>

\* addGroupMember, and disableUser's RemoveAllGroupMemberships.  Neither
\* touches the aliases.
AddGroupMember(p) ==
    /\ At(p, "regroup", None, "done")
    /\ \E a \in Addrs : group' = group \cup {a}
    /\ UNCHANGED <<rows, file, job>>

RemoveAllGroupMemberships(p) ==
    /\ At(p, "regroup", None, "done")
    /\ \E a \in Addrs : group' = group \ {a}
    /\ UNCHANGED <<rows, file, job>>

\* The alias rows go as well, and the groups if it is the organization that is
\* deleted; the lines of the file stay.
DeleteDomain(p) ==
    /\ DeleteMailRows(p)
    /\ rows' = [l \in Locals |-> NoRow]
    /\ group' \in {group, {}}
    /\ UNCHANGED <<file, job>>

AliasStep(p) ==
    \/ StartAlias(p) \/ CheckAlias(p)
    \/ SetAliasRead(p) \/ SetAliasTruncate(p) \/ SetAliasWrite(p) \/ CreateMailAlias(p)
    \/ AddGroupMember(p) \/ RemoveAllGroupMemberships(p) \/ DeleteDomain(p)
=============================================================================
