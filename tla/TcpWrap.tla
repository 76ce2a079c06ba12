------------------------------ MODULE TcpWrap ------------------------------
(***************************************************************************)
(* The tcpwrap peer filter (internal/xio/tcpwrap.go): may this peer        *)
(* connect?  hosts.allow and hosts.deny are read, framed into lines and    *)
(* matched in order; a token that needs a host name starts a reverse       *)
(* lookup of several DNS questions, each of which may fail or time out,    *)
(* and its answer serves every later token of the check.                   *)
(*                                                                         *)
(* Text is abstracted to what the verdict depends on.  A token is named    *)
(* for what it compares ("net+": an address or network with the endpoint   *)
(* in it, "net-": one without; "host": the endpoint's name; in a daemon    *)
(* list these stand for daemon@token), an option for how applyOptions      *)
(* treats it, a physical line for how it ends.                             *)
(***************************************************************************)
EXTENDS Naturals, Sequences, SequencesExt

CONSTANTS Phys,         \* physical lines that tables are made of
          MaxPhys       \* physical lines of both tables together

Tables == <<"allow", "deny">>
Ends == {"client", "server"}

VARIABLES
    options,        \* the tcpwrap options of the address
    peer,           \* the client: "ip", "literal" (a name, no address), "none"
    file,           \* of each table: its state and physical lines
    table,          \* of each table: lines and frame error, once read
    pc,
    t, line,        \* position: table and line
    side,           \* the list being matched: "daemon", "client"
    pos, depth,     \* position in it, EXCEPTs entered
    looked, status, \* of each endpoint: dnsName's cache
    failed,         \* was an error met?
    verdict

vars == <<options, peer, file, table, pc, t, line, side, pos, depth, looked, status, failed, verdict>>

----------------------------------------------------------------------------
(* Reading the tables.                                                     *)

enabled == options # {}
required(tab) ==
    \/ "tcpwrap-etc" \in options
    \/ tab = "allow" /\ "hosts-allow" \in options
    \/ tab = "deny" /\ "hosts-deny" \in options

\* A frame error keeps the lines before it, and ends the table.
Framed(tab, p) ==
    IF tab.frame THEN tab
    ELSE IF p.end \in {"nul", "long", "eof"} THEN [tab EXCEPT !.frame = TRUE, !.open = FALSE]
    ELSE IF p.end = "slash" THEN [tab EXCEPT !.open = TRUE]
    ELSE [lines |-> Append(tab.lines, p), open |-> FALSE, frame |-> FALSE]

\* A continuation that the end of the file cuts off is a frame error as well.
parseHostsTable(phys) ==
    LET tab == FoldLeft(Framed, [lines |-> <<>>, open |-> FALSE, frame |-> FALSE], phys)
    IN  [lines |-> tab.lines, frame |-> tab.frame \/ tab.open]

Init ==
    /\ options \in {{}, {"tcpwrap"}, {"hosts-deny"}}
    /\ peer \in {"ip", "literal", "none"}
    /\ file \in [{"allow", "deny"} ->
                    [state : {"missing", "unreadable"}, phys : {<<>>}]
                    \cup [state : {"ok"}, phys : BoundedSeq(Phys, MaxPhys)]]
    /\ Len(file["allow"].phys) + Len(file["deny"].phys) <= MaxPhys
    /\ table = [n \in {"allow", "deny"} |-> [lines |-> <<>>, frame |-> FALSE]]
    /\ pc = "begin"
    /\ t = 1 /\ line = 1 /\ side = "daemon" /\ pos = 1 /\ depth = 0
    /\ looked = [e \in Ends |-> FALSE]
    /\ status = [e \in Ends |-> "unknown"]
    /\ failed = FALSE
    /\ verdict = "none"

Decide(v) ==
    /\ verdict' = v
    /\ pc' = "done"

Refuse ==
    /\ failed' = TRUE
    /\ Decide("deny")

\* tcpwrapAllowedWithResolver up to the tables.
Begin ==
    /\ pc = "begin"
    /\ IF ~enabled THEN Decide("permit")
       ELSE IF peer = "none" THEN Decide("deny")
       ELSE pc' = "read" /\ UNCHANGED verdict
    /\ UNCHANGED <<options, peer, file, table, t, line, side, pos, depth, looked, status, failed>>

\* readHostsTable, first hosts.allow, then hosts.deny.
Read ==
    /\ pc = "read"
    /\ LET n == Tables[t]
       IN  IF file[n].state = "unreadable" \/ (file[n].state = "missing" /\ required(n))
           THEN Refuse /\ UNCHANGED <<table, t>>
           ELSE /\ table' = [table EXCEPT ![n] = parseHostsTable(file[n].phys)]
                /\ IF t = 1 THEN t' = 2 /\ pc' = "read" ELSE t' = 1 /\ pc' = "line"
                /\ UNCHANGED <<failed, verdict>>
    /\ UNCHANGED <<options, peer, file, line, side, pos, depth, looked, status>>

----------------------------------------------------------------------------
(* Matching.                                                               *)

Lines == table[Tables[t]].lines
Rule == Lines[line]

\* The end of a table: on to hosts.deny, whose frame error refuses the peer.
EndOfTable ==
    /\ pc = "line"
    /\ line > Len(Lines)
    /\ IF t = 1 THEN t' = 2 /\ line' = 1 /\ UNCHANGED <<pc, verdict, failed>>
       ELSE /\ UNCHANGED <<t, line>>
            /\ IF table["deny"].frame THEN Refuse ELSE Decide("permit") /\ UNCHANGED failed
    /\ UNCHANGED <<options, peer, file, table, side, pos, depth, looked, status>>

\* matchHostsTable: skip what is no rule, refuse what splitHostsRule cannot split.
NextLine ==
    /\ pc = "line"
    /\ line <= Len(Lines)
    /\ CASE Rule.kind = "comment" -> line' = line + 1 /\ UNCHANGED <<pc, side, pos, depth, failed, verdict>>
         [] Rule.kind = "broken" -> Refuse /\ UNCHANGED <<line, side, pos, depth>>
         [] Rule.kind = "rule" -> /\ pc' = "match" /\ side' = "daemon" /\ pos' = 1 /\ depth' = 0
                                  /\ UNCHANGED <<line, failed, verdict>>
    /\ UNCHANGED <<options, peer, file, table, t, looked, status>>

List == Rule[side]
Token == List[pos]

\* The endpoint whose name a token asks for.  A literal peer has no address to look up.
Named(tok) == IF side = "client" THEN "client" ELSE "server"
NeedsName(tok) == tok \in {"KNOWN", "LOCAL", "UNKNOWN", "PARANOID", "host"}
HasAddress == side = "daemon" \/ peer = "ip"
Unanswered == NeedsName(Token) /\ HasAddress /\ ~looked[Named(Token)]

\* serverToken, clientToken, hostMatch and the matchers below them: a token
\* against an endpoint whose name has the status s.  "user@host" asks for IDENT
\* once its host matches; "bad" is any pattern this build does not evaluate.
InNet(tok, ip) == tok = "net+" /\ ip
IsName(tok, ip, s) == tok = "host" /\ (~ip \/ s = "known")
Matches(tok, ip, s) ==
    CASE tok = "ALL" -> TRUE
      [] tok = "KNOWN" -> ip /\ s \in {"known", "local"}
      [] tok = "LOCAL" -> ip /\ s = "local"
      [] tok = "UNKNOWN" -> ~ip \/ s = "unknown"
      [] tok = "PARANOID" -> ip /\ s = "paranoid"
      [] OTHER -> InNet(tok, ip) \/ IsName(tok, ip, s)
Errs(tok) == tok \in {"user@ALL", "bad"}
TokenMatches == Matches(Token, HasAddress, status[Named(Token)])

\* The list is decided at this nesting: every EXCEPT entered turns the result.
Conclude(r) ==
    LET ok == (r # (depth % 2 = 1))
    IN  IF ~ok THEN pc' = "line" /\ line' = line + 1 /\ UNCHANGED <<side, pos, depth>>
        ELSE IF side = "daemon" THEN side' = "client" /\ pos' = 1 /\ depth' = 0 /\ pc' = "match" /\ UNCHANGED line
        ELSE pc' = "options" /\ UNCHANGED <<line, side, pos, depth>>

Excepts == {i \in DOMAIN List : i > pos /\ List[i] = "EXCEPT"}

\* matchListAt, one token; "settled" after the lookup it asked for.
MatchToken ==
    /\ pc \in {"match", "settled"}
    /\ pos <= Len(List)
    /\ pc = "match" => ~Unanswered
    /\ \/ /\ Errs(Token)
          /\ Refuse
          /\ UNCHANGED <<line, side, pos, depth>>
       \/ /\ Token = "EXCEPT"
          /\ Conclude(FALSE)
          /\ UNCHANGED <<failed, verdict>>
       \/ /\ ~Errs(Token) /\ Token # "EXCEPT" /\ ~TokenMatches
          /\ pos' = pos + 1
          /\ pc' = "match"
          /\ UNCHANGED <<line, side, depth, failed, verdict>>
       \/ /\ ~Errs(Token) /\ TokenMatches /\ Excepts = {}
          /\ Conclude(TRUE)
          /\ UNCHANGED <<failed, verdict>>
       \/ /\ ~Errs(Token) /\ TokenMatches /\ Excepts # {}
          /\ pos' = 1 + (CHOOSE i \in Excepts : \A j \in Excepts : i <= j)
          /\ depth' = depth + 1
          /\ pc' = "match"
          /\ UNCHANGED <<line, side, failed, verdict>>
    /\ UNCHANGED <<options, peer, file, table, t, looked, status>>

ListEnds ==
    /\ pc = "match"
    /\ pos > Len(List)
    /\ Conclude(FALSE)
    /\ UNCHANGED <<options, peer, file, table, t, looked, status, failed, verdict>>

\* applyOptions: "allow" and "deny" decide, and only as the last option; "plain"
\* is one that is checked and not executed, "bad" one that does not pass, twist
\* and aclexec among them.
applyOptions(opts, tab) ==
    LET stops == {i \in DOMAIN opts : opts[i] # "plain"}
        first == CHOOSE i \in stops : \A j \in stops : i <= j
    IN  IF stops = {} THEN (IF tab = 1 THEN "permit" ELSE "deny")
        ELSE IF opts[first] = "bad" \/ first # Len(opts) THEN "error"
        ELSE IF opts[first] = "allow" THEN "permit" ELSE "deny"

ApplyOptions ==
    /\ pc = "options"
    /\ LET v == applyOptions(Rule.options, t)
       IN  IF v = "error" THEN Refuse ELSE Decide(v) /\ UNCHANGED failed
    /\ UNCHANGED <<options, peer, file, table, t, line, side, pos, depth, looked, status>>

----------------------------------------------------------------------------
(* dnsName and lookupHostStatus: PTR, then CNAME, then the addresses.      *)

\* A name looked up anew for every token (mutant).
AnswerForgets(s) ==
    /\ status' = [status EXCEPT ![Named(Token)] = s]
    /\ UNCHANGED looked

Answer(s) ==
    /\ status' = [status EXCEPT ![Named(Token)] = s]
    /\ looked' = [looked EXCEPT ![Named(Token)] = TRUE]

Found(s) ==
    /\ Answer(s)
    /\ pc' = "settled"
    /\ UNCHANGED <<failed, verdict>>

\* The timeout of the lookup, or the end of the session.
TimesOut ==
    /\ Refuse
    /\ UNCHANGED <<looked, status>>

LookupPTR ==
    /\ pc = "match"
    /\ pos <= Len(List)
    /\ Unanswered
    /\ \/ TimesOut
       \/ Found("unknown")                                              \* no name, or a temporary failure
       \/ Found("paranoid")                                             \* a broken answer, a number as name
       \/ pc' = "cname" /\ UNCHANGED <<looked, status, failed, verdict>>
    /\ UNCHANGED <<options, peer, file, table, t, line, side, pos, depth>>

LookupCNAME ==
    /\ pc = "cname"
    /\ \/ TimesOut
       \/ Found("paranoid")                                             \* another name, or a failure
       \/ pc' = "forward" /\ UNCHANGED <<looked, status, failed, verdict>>
    /\ UNCHANGED <<options, peer, file, table, t, line, side, pos, depth>>

LookupIP ==
    /\ pc = "forward"
    /\ \/ TimesOut
       \/ Found("paranoid")                                             \* the address is not among them
       \/ Found("known")                                                \* a name with a dot
       \/ Found("local")                                                \* a name without
    /\ UNCHANGED <<options, peer, file, table, t, line, side, pos, depth>>

Next ==
    \/ Begin \/ Read \/ EndOfTable \/ NextLine \/ MatchToken \/ ListEnds \/ ApplyOptions
    \/ LookupPTR \/ LookupCNAME \/ LookupIP

Spec == Init /\ [][Next]_vars

----------------------------------------------------------------------------
(* What hosts_access(5) makes of the tables, from one answer per endpoint. *)

\* The parts of a list between its EXCEPTs, as sets of tokens.
Cuts(list) == {0, Len(list) + 1} \cup {i \in DOMAIN list : list[i] = "EXCEPT"}
Parts(list) ==
    LET cuts == SetToSortSeq(Cuts(list), LAMBDA a, b : a < b)
    IN  [k \in 1 .. Len(cuts) - 1 |-> {list[i] : i \in cuts[k] + 1 .. cuts[k + 1] - 1}]

\* a EXCEPT (b EXCEPT (c ...)): an odd number of leading parts match.
ListMatches(list, ip, s) ==
    LET ok == [k \in DOMAIN Parts(list) |-> \E tok \in Parts(list)[k] : Matches(tok, ip, s)]
        run == {k \in DOMAIN ok : \A j \in 1 .. k : ok[j]}
    IN  Cardinality(run) % 2 = 1

Hits(n) == {i \in DOMAIN table[n].lines :
               /\ table[n].lines[i].kind = "rule"
               /\ ListMatches(table[n].lines[i].daemon, TRUE, status["server"])
               /\ ListMatches(table[n].lines[i].client, peer = "ip", status["client"])}
First(n) == table[n].lines[CHOOSE i \in Hits(n) : \A j \in Hits(n) : i <= j]

Reference ==
    IF Hits("allow") # {} THEN applyOptions(First("allow").options, 1)
    ELSE IF Hits("deny") # {} THEN applyOptions(First("deny").options, 2)
    ELSE IF table["deny"].frame THEN "deny"
    ELSE "permit"

\* The verdict on a peer is the one that the two tables give for a single answer
\* to each reverse lookup: hosts.allow before hosts.deny, the first line that
\* matches, EXCEPT nesting to the right.  Any error on the way - an unreadable
\* table, a pattern or option not evaluated, a lookup that timed out, a deny table
\* with a broken line after the ones that did not match - refuses the peer.
WrapVerdict ==
    pc = "done" =>
        /\ failed => verdict = "deny"
        /\ (~failed /\ enabled /\ peer # "none") => verdict = Reference
=============================================================================
