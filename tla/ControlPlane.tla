---------------------------- MODULE ControlPlane ----------------------------
(***************************************************************************)
(* The way from a web console to the policy: index.html in several         *)
(* browsers, HTTPProxy.py, and the server's handler. The policy is changed *)
(* in one step here; RuleManager has the threads behind that step.         *)
(*                                                                         *)
(* A request is one HTTP request; its body is what the page puts into it.  *)
(* An answer is the sequence of the JSON documents in the HTTP response.   *)
(* Requests and answers may overtake each other: every $http call has a    *)
(* connection of its own.                                                  *)
(***************************************************************************)
EXTENDS RuleJson, SequencesExt

CONSTANTS
    Consoles,
    Other,       \* a client that is no console
    SimpleToken, \* SIMPLE_TOKEN
    Tokens,      \* what a user may type as the token
    NoToken,     \* the cookie is not set
    Files,       \* the rules files the server may have been started with
    Typed,       \* what a user may type as a rule
    MaxFit,      \* the rules whose update fits the 2048 bytes of one recv
    MaxCut,      \* the rules whose list surely comes with one recv of the proxy
    MaxVisits,   \* bound on the times a console loads the page
    MaxEdits,    \* bound on what all users together do to the forms
    MaxUploads,  \* bound on the uploads of all consoles
    MaxOthers,   \* bound on the requests of the other client
    Packets, Clocks \* the packets and times the meaning of rules is compared on

ASSUME ControlAssumption ==
    /\ Other \notin Consoles
    /\ NoToken \notin Tokens
    /\ SimpleToken \in Tokens
    /\ Files \subseteq Seq(Rule)
    /\ Typed \subseteq RuleValue
    /\ MaxFit \in Nat \ {0}
    /\ {MaxCut, MaxVisits, MaxEdits, MaxUploads, MaxOthers} \subseteq Nat
    /\ Packets \subseteq Packet
    /\ Clocks \subseteq Clock

VARIABLES
    policy, enabled, \* the rule manager
    alive,   \* the server process has not been terminated
    trail,   \* pieces of updates left on connections the proxy has closed
    conn,    \* the proxy's connection: pieces to be received, answers sent
    proxy,   \* the request the proxy serves, and what it has written already
    wire,    \* HTTP requests not yet served
    back,    \* HTTP answers under way to a console
    con,     \* the pages
    count,   \* forms edited, uploads and other requests so far
    version, \* history: how many updates have been installed
    past     \* history: what has happened, by name

server == <<policy, enabled, alive, version>>
vars == <<policy, enabled, alive, trail, conn, proxy, wire, back, con, count, version, past>>

-----------------------------------------------------------------------------
(***************************************************************************)
(* The page.                                                               *)
(***************************************************************************)

Lists == {"black", "white"}

\* A row of a list. of tells, as history, which rule of the answer it was.
Item(v, status, of) == [v |-> v, status |-> status, of |-> of]

SampleValue == [src_ip |-> <<33>>, target_ip |-> <<123>>, src_port |-> 1241, target_port |-> 241,
                type |-> Absent, protocol |-> <<"other">>, time_pass |-> Absent, timepass |-> Absent]
Samples == <<Item(SampleValue, "on", 0), Item(SampleValue, "off", 0)>>

\* A page as its script leaves it; synced, known, base and touched are history:
\* whether the lists and the status came from the server, the version they had
\* there, and the rules of that version the user has touched.
FreshPage(page, visit, token) ==
    [page |-> page, visit |-> visit, token |-> token, run_state |-> 0,
     list |-> [l \in Lists |-> Samples],
     synced |-> FALSE, known |-> FALSE, base |-> 0, touched |-> {}]

\* The last three members of a request are history: what its page had synced.
NoRequest == [from |-> Other, visit |-> 0, nr |-> 0, opt |-> "none", token |-> NoToken,
              enabled |-> 0, data |-> <<>>, synced |-> FALSE, base |-> 0, touched |-> {}]

\* request_: every body carries the token of the cookie.
request_(c, opt) ==
    [NoRequest EXCEPT !.from = c, !.opt = opt, !.token = con[c].token, !.visit = con[c].visit]

\* What uploadRuleList sends of a row that is on.
transformer(v, type) == [v EXCEPT !.type = type, !.time_pass = Absent]

IsOn(e) == e.status = "on"

\* The elements of s at the positions in at, in their order.
Nth(at, k) == CHOOSE i \in at : Cardinality({j \in at : j <= i}) = k
Sublist(s, at) == [k \in 1 .. Cardinality(at) |-> s[Nth(at, k)]]

\* Mutated form of Elements: rows that are off become null instead of being left out.
ElementsWithNull(rows, type) ==
    [i \in 1 .. Len(rows) |-> IF IsOn(rows[i]) THEN transformer(rows[i].v, type) ELSE Absent]

Elements(rows, type) ==
    Sublist([i \in DOMAIN rows |-> transformer(rows[i].v, type)], {i \in DOMAIN rows : IsOn(rows[i])})

-----------------------------------------------------------------------------
(***************************************************************************)
(* Answers.                                                                *)
(***************************************************************************)

ErrorDoc == [kind |-> "error"]
OkDoc == [kind |-> "ok"]
StatusDoc(on) == [kind |-> "status", enabled |-> on]
ListDoc(list, ver) == [kind |-> "list", list |-> list, ver |-> ver]
CutDoc == [kind |-> "cut"]

\* $http parses the body unless it is empty; anything but one document is
\* rejected and no callback of the page runs.
Parsable(docs) == Len(docs) <= 1 /\ CutDoc \notin ToSet(docs)
IsDoc(docs, kind) == docs # <<>> /\ Head(docs).kind = kind

-----------------------------------------------------------------------------

NoConn == [pieces |-> <<>>, out |-> <<>>]
Idle == [at |-> "idle", req |-> NoRequest, docs |-> <<>>]

Init ==
    /\ policy \in Files
    /\ enabled = TRUE
    /\ alive = TRUE
    /\ trail = 0
    /\ conn = NoConn
    /\ proxy = Idle
    /\ wire = {}
    /\ back = {}
    /\ con \in [Consoles -> {FreshPage("none", 0, t) : t \in Tokens \cup {NoToken}}]
    /\ count = [edits |-> 0, uploads |-> 0, others |-> 0]
    /\ version = 0
    /\ past = {}

TypeOK ==
    /\ policy \in Seq(Rule)
    /\ enabled \in BOOLEAN
    /\ alive \in BOOLEAN
    /\ trail \in Nat
    /\ \A i \in DOMAIN conn.pieces : conn.pieces[i] \in {"whole", "first", "rest"}
    /\ proxy.at \in {"idle", "waiting"}
    /\ proxy.at = "idle" => proxy = Idle /\ conn = NoConn
    /\ \A r \in wire : r.from \in Consoles \cup {Other}
    /\ \A b \in back : b.req.from \in Consoles
    /\ \A c \in Consoles :
          /\ con[c].page \in {"none", "up"}
          /\ con[c].run_state \in {0, 1}
          /\ \A l \in Lists : \A i \in DOMAIN con[c].list[l] :
                con[c].list[l][i].status \in {"on", "off", "none"}
          /\ con[c].touched \subseteq Nat
    /\ version \in 0 .. MaxUploads

-----------------------------------------------------------------------------
(***************************************************************************)
(* CHandler::handle behind the connection's loop: one call for each piece  *)
(* that one recv returns.                                                  *)
(***************************************************************************)

\* How a body arrives. An update that does not fit comes in several pieces.
Pieces(r) ==
    LET n == Len(r.data) IN
    CASE r.opt = "empty" -> <<>>
      [] n > MaxFit -> [i \in 1 .. (n + MaxFit - 1) \div MaxFit |-> IF i = 1 THEN "first" ELSE "rest"]
      [] OTHER -> <<"whole">>

Answered(doc) == [pieces |-> Tail(conn.pieces), out |-> Append(conn.out, doc)]
Answer(doc) == conn' = Answered(doc)

Arrived(piece) == alive /\ conn.pieces # <<>> /\ Head(conn.pieces) = piece

QueryRules ==
    /\ Arrived("whole")
    /\ proxy.req.opt \in {"rules", "config"}
    /\ Answer(ListDoc([i \in DOMAIN policy |-> toJson(policy[i])], version))
    /\ UNCHANGED <<policy, enabled, alive, version, past>>

QueryStatus ==
    /\ Arrived("whole")
    /\ proxy.req.opt = "status"
    /\ Answer(StatusDoc(enabled))
    /\ UNCHANGED <<policy, enabled, alive, version, past>>

\* An element that is no object makes picojson throw; nobody catches, and the
\* process is terminated.
UpdateRules ==
    LET r == proxy.req
        throws == Absent \in ToSet(r.data)
    IN  /\ Arrived("whole")
        /\ r.opt = "update"
        /\ alive' = ~throws
        /\ policy' = IF throws THEN policy ELSE [i \in DOMAIN r.data |-> ParseFromJson(r.data[i])]
        /\ enabled' = IF throws THEN enabled ELSE r.enabled > 0
        /\ version' = IF throws THEN version ELSE version + 1
        /\ past' = IF throws THEN past ELSE past \cup {<<"installed", r.from, r.nr>>}
        /\ conn' = IF throws THEN NoConn ELSE Answered(OkDoc)

\* The first piece is cut off JSON: a bad body.
BadBody ==
    /\ Arrived("first")
    /\ Answer(ErrorDoc)
    /\ UNCHANGED <<policy, enabled, alive, version, past>>

\* A later piece begins anywhere: a bad body, an object without opt, or JSON
\* that is no object, which terminates the process.
RestOfBody ==
    /\ Arrived("rest")
    /\ \/ Answer(ErrorDoc) /\ UNCHANGED alive
       \/ alive' = FALSE /\ conn' = [conn EXCEPT !.pieces = <<>>]
    /\ UNCHANGED <<policy, enabled, version, past>>

\* The same after the proxy has closed the connection; the answer is lost.
RestAfterClose ==
    /\ alive /\ trail > 0
    /\ trail' = trail - 1
    /\ alive' \in BOOLEAN
    /\ UNCHANGED <<policy, enabled, version, past, conn>>

Handle ==
    /\ \/ (QueryRules \/ QueryStatus \/ UpdateRules \/ BadBody \/ RestOfBody) /\ UNCHANGED trail
       \/ RestAfterClose
    /\ UNCHANGED <<proxy, wire, back, con, count>>

-----------------------------------------------------------------------------
(***************************************************************************)
(* HTTPProxy.py: one request at a time.                                    *)
(***************************************************************************)

\* The error documents do_POST writes before it goes on with the request.
jsonCheck(r) == IF r.opt = "empty" THEN 2 ELSE IF r.token = SimpleToken THEN 0 ELSE 3
ErrorDocs(r) ==
    CASE r.opt = "config" -> <<>>
      [] r.opt = "empty" -> <<ErrorDoc, ErrorDoc>>
      [] jsonCheck(r) > 0 -> <<ErrorDoc>>
      [] OTHER -> <<>>

Reply(r, docs) ==
    back' = IF r.from = Other THEN back ELSE back \cup {[req |-> r, docs |-> docs]}

\* Mutated form of Forward: when connect raises, the connection stays open without an answer.
ForwardUnanswered(r) ==
    /\ proxy.at = "idle"
    /\ wire' = wire \ {r}
    /\ alive
    /\ proxy' = [at |-> "waiting", req |-> r, docs |-> ErrorDocs(r)]
    /\ conn' = [pieces |-> Pieces(r), out |-> <<>>]
    /\ UNCHANGED back

\* Mutated form of Forward: the proxy stops after the error document of a wrong token, which the
\* page takes for an answer.
ForwardUnlessRefused(r) ==
    /\ proxy.at = "idle"
    /\ wire' = wire \ {r}
    /\ \/ /\ alive /\ ErrorDocs(r) = <<>>
          /\ proxy' = [at |-> "waiting", req |-> r, docs |-> <<>>]
          /\ conn' = [pieces |-> Pieces(r), out |-> <<>>]
          /\ UNCHANGED back
       \/ /\ ~alive \/ ErrorDocs(r) # <<>>
          /\ Reply(r, ErrorDocs(r))
          /\ UNCHANGED <<proxy, conn>>

\* do_POST and GET /config connect and send. If nobody listens, connect raises:
\* the response ends after what was written.
Forward(r) ==
    /\ proxy.at = "idle"
    /\ wire' = wire \ {r}
    /\ \/ /\ alive
          /\ proxy' = [at |-> "waiting", req |-> r, docs |-> ErrorDocs(r)]
          /\ conn' = [pieces |-> Pieces(r), out |-> <<>>]
          /\ UNCHANGED back
       \/ /\ ~alive
          /\ Reply(r, ErrorDocs(r))
          /\ UNCHANGED <<proxy, conn>>

\* One recv, without a timeout: what has been sent so far. Of a long list it may
\* be a part.
Received ==
    IF \E i \in DOMAIN conn.out : conn.out[i].kind = "list" /\ Len(conn.out[i].list) > MaxCut
    THEN {conn.out, <<CutDoc>>} ELSE {conn.out}

\* Mutated form of Receive: the socket is left open.
ReceiveKeepsOpen ==
    /\ proxy.at = "waiting"
    /\ conn.out # <<>>
    /\ \E docs \in Received : Reply(proxy.req, proxy.docs \o docs)
    /\ proxy' = Idle
    /\ UNCHANGED <<wire, trail, conn>>

Receive ==
    /\ proxy.at = "waiting"
    /\ conn.out # <<>>
    /\ \E docs \in Received : Reply(proxy.req, proxy.docs \o docs)
    /\ trail' = trail + Len(conn.pieces)
    /\ proxy' = Idle
    /\ conn' = NoConn
    /\ UNCHANGED wire

\* The server is gone: recv returns nothing or raises.
LoseServer ==
    /\ proxy.at = "waiting"
    /\ ~alive
    /\ Reply(proxy.req, proxy.docs)
    /\ proxy' = Idle
    /\ conn' = NoConn
    /\ UNCHANGED <<wire, trail>>

ProxyStep ==
    /\ \/ \E r \in wire : Forward(r) /\ UNCHANGED trail
       \/ Receive
       \/ LoseServer
    /\ UNCHANGED <<server, con, count, past>>

-----------------------------------------------------------------------------
(***************************************************************************)
(* What the page does with an answer.                                      *)
(***************************************************************************)

\* Mutated form of Rows: rules that are neither black nor white are left out.
RowsOfKnownTypes(doc, l) ==
    Sublist([i \in DOMAIN doc.list |-> Item(doc.list[i], "on", i)],
            {i \in DOMAIN doc.list :
                doc.list[i].type = IF l = "black" THEN TYPE_BLACK_LIST ELSE TYPE_WHITE_LIST})

\* Rows of the list document: type 0 is black and every other type white.
Rows(doc, l) ==
    Sublist([i \in DOMAIN doc.list |-> Item(doc.list[i], "on", i)],
            {i \in DOMAIN doc.list : (doc.list[i].type = TYPE_BLACK_LIST) <=> (l = "black")})

\* Mutated form of syncRuleList: $scope.white_list = w_ is missing.
syncRuleListBlackOnly(c, doc) ==
    con' = [con EXCEPT ![c].list["black"] = Rows(doc, "black"),
                       ![c].synced = TRUE, ![c].base = doc.ver, ![c].touched = {}]

syncRuleList(c, doc) ==
    con' = [con EXCEPT ![c].list = [l \in Lists |-> Rows(doc, l)],
                       ![c].synced = TRUE, ![c].base = doc.ver, ![c].touched = {}]

\* Mutated form of syncStatus: the callback inverts the answer.
syncStatusInverted(c, docs) ==
    LET on == IsDoc(docs, "status") IN
    con' = [con EXCEPT ![c].run_state = IF on /\ Head(docs).enabled THEN 0 ELSE 1, ![c].known = on]

syncStatus(c, docs) ==
    LET on == IsDoc(docs, "status") IN
    con' = [con EXCEPT ![c].run_state = IF on /\ Head(docs).enabled THEN 1 ELSE 0, ![c].known = on]

\* The callbacks of the two queries and of the upload, for a parsable body.
\* Without a list forEach throws, without enabled the status is 0, and an
\* upload reports success whatever the answer says.
Callback(r, docs) ==
    \/ /\ r.opt = "rules" /\ IsDoc(docs, "list")
       /\ syncRuleList(r.from, Head(docs))
       /\ UNCHANGED past
    \/ /\ r.opt = "rules" /\ ~IsDoc(docs, "list")
       /\ UNCHANGED <<con, past>>
    \/ /\ r.opt = "status"
       /\ syncStatus(r.from, docs)
       /\ UNCHANGED past
    \/ /\ r.opt = "update"
       /\ past' = past \cup {<<"success", r.from, r.nr>>}
       /\ UNCHANGED con

\* An answer for a page that has been left, or one that is rejected, changes
\* nothing.
Deliver(b) ==
    LET c == b.req.from IN
    /\ back' = back \ {b}
    /\ \/ /\ b.req.visit = con[c].visit /\ Parsable(b.docs)
          /\ Callback(b.req, b.docs)
       \/ /\ b.req.visit # con[c].visit \/ ~Parsable(b.docs)
          /\ UNCHANGED <<con, past>>
    /\ UNCHANGED <<server, trail, conn, proxy, wire, count>>

-----------------------------------------------------------------------------
(***************************************************************************)
(* What users do.                                                          *)
(***************************************************************************)

\* do_GET answers with the page, from memory, when the proxy is free; the page's
\* script shows sample rows, sets run_state 0 and, if there is a token, sends the
\* two queries.
Load(c) ==
    LET page == FreshPage("up", con[c].visit + 1, con[c].token)
        query(opt) == [request_(c, opt) EXCEPT !.visit = page.visit]
    IN  /\ proxy.at = "idle"
        /\ con[c].visit < MaxVisits
        /\ con' = [con EXCEPT ![c] = page]
        /\ wire' = IF page.token = NoToken THEN wire
                   ELSE wire \cup {query("rules"), query("status")}
        /\ UNCHANGED <<count, past>>

\* okWithToken sets the cookie and nothing else.
okWithToken(c, t) ==
    /\ con' = [con EXCEPT ![c].token = t]
    /\ UNCHANGED <<wire, past>>

\* The radio buttons.
Switch(c, s) ==
    /\ con[c].run_state # s
    /\ con' = [con EXCEPT ![c].run_state = s]
    /\ past' = IF s = 0 THEN past \cup {<<"off chosen">>} ELSE past
    /\ UNCHANGED wire

Touch(c, e) == con[c].touched \cup (IF e.of = 0 THEN {} ELSE {e.of})

\* The link between on and off, and the form of a row; the form shows time, not
\* timepass.
ToggleItem(c, l, i) ==
    LET e == con[c].list[l][i] IN
    con' = [con EXCEPT ![c].list[l][i].status = IF @ = "on" THEN "off" ELSE "on",
                       ![c].touched = Touch(c, e)]

EditItem(c, l, i, v) ==
    LET e == con[c].list[l][i] IN
    con' = [con EXCEPT ![c].list[l][i].v = [v EXCEPT !.timepass = e.v.timepass, !.type = e.v.type],
                       ![c].touched = Touch(c, e)]

RemoveItem(c, l, i) ==
    LET e == con[c].list[l][i] IN
    con' = [con EXCEPT ![c].list[l] = RemoveAt(@, i), ![c].touched = Touch(c, e)]

\* A form that addBlackList or addWhiteList opened is filled in, and saveBlackItem
\* or saveWhiteItem appends it to the list, without a status. (syncRuleList drops
\* open forms, which nothing else has seen.)
saveItem(c, l, v) == con' = [con EXCEPT ![c].list[l] = Append(@, Item(v, "none", 0))]

\* The lists are shown only while run_state is 1.
EditLists(c) ==
    /\ con[c].run_state = 1
    /\ \E l \in Lists :
          \/ \E i \in DOMAIN con[c].list[l] :
                \/ ToggleItem(c, l, i)
                \/ RemoveItem(c, l, i)
                \/ \E v \in Typed : EditItem(c, l, i, v)
          \/ \E v \in Typed : saveItem(c, l, v)
    /\ UNCHANGED <<wire, past>>

Edit(c) ==
    /\ con[c].page = "up"
    /\ count.edits < MaxEdits
    /\ count' = [count EXCEPT !.edits = @ + 1]
    /\ \/ \E t \in Tokens : okWithToken(c, t)
       \/ \E s \in {0, 1} : Switch(c, s)
       \/ EditLists(c)

\* The rows that are on, black ones first, and run_state.
uploadRuleList(c) ==
    LET data == Elements(con[c].list["black"], TYPE_BLACK_LIST)
                \o Elements(con[c].list["white"], TYPE_WHITE_LIST)
        req == [request_(c, "update") EXCEPT !.nr = count.uploads + 1,
                                             !.enabled = con[c].run_state, !.data = data,
                                             !.synced = con[c].synced, !.base = con[c].base,
                                             !.touched = con[c].touched]
    IN  /\ con[c].page = "up"
        /\ count.uploads < MaxUploads
        /\ count' = [count EXCEPT !.uploads = @ + 1]
        /\ wire' = wire \cup {req}
        /\ past' = past \cup (IF con[c].synced THEN {} ELSE {<<"lists unknown">>})
                        \cup (IF con[c].known THEN {} ELSE {<<"status unknown">>})
                        \cup (IF Len(data) > MaxFit THEN {<<"long update">>} ELSE {})
        /\ UNCHANGED con

User(c) ==
    /\ Load(c) \/ Edit(c) \/ uploadRuleList(c)
    /\ UNCHANGED <<server, trail, conn, proxy, back>>

\* Another client gets /config or posts an empty body.
OtherClient ==
    /\ count.others < MaxOthers
    /\ count' = [count EXCEPT !.others = @ + 1]
    /\ \E opt \in {"config", "empty"} : wire' = wire \cup {[NoRequest EXCEPT !.opt = opt]}
    /\ UNCHANGED <<server, trail, conn, proxy, back, con, past>>

Next ==
    \/ Handle
    \/ ProxyStep
    \/ \E b \in back : Deliver(b)
    \/ \E c \in Consoles : User(c)
    \/ OtherClient

\* The server's threads, the proxy's loop and the network are scheduled; users
\* do what they like.
Fairness ==
    /\ WF_vars(Handle)
    /\ WF_vars(ProxyStep)
    /\ \A c \in Consoles : WF_vars(\E b \in back : b.req.from = c /\ Deliver(b))

Spec == Init /\ [][Next]_vars /\ Fairness

-----------------------------------------------------------------------------
(***************************************************************************)
(* Properties.                                                             *)
(***************************************************************************)

\* Rule a matches whatever rule r matches, on the packets and times compared.
Covers(a, r) == \A p \in Packets : \A t \in Clocks : check(r, p, t) => check(a, p, t)

\* What a page keeps of a rule's type.
KeptType(r) == IF r.type = TYPE_BLACK_LIST THEN TYPE_BLACK_LIST ELSE TYPE_WHITE_LIST

\* A user who uploads edits some rules and leaves the others alone. If the page
\* got its lists from the server and no other update came in between, every rule
\* left alone (through toJson, syncRuleList, the forms, transformer and
\* ParseFromJson) still matches all it matched, in its list; the time mask may
\* widen, and a rule neither black nor white becomes white.
UntouchedRulesStay ==
    [][LET r == proxy.req IN
       (version' # version /\ r.synced /\ r.base = version) =>
           \A i \in DOMAIN policy \ r.touched : \E j \in DOMAIN policy' :
              policy'[j].type = KeptType(policy[i]) /\ Covers(policy'[j], policy[i])]_vars

\* The filter is off only if some user chose off, or uploaded before the page had
\* the status from the server (run_state starts as 0): the answers to the two
\* queries and to uploads of several pages, in whatever order they come, never
\* switch it off.
FilterOffExplained ==
    ~enabled => past \cap {<<"off chosen">>, <<"status unknown">>} # {}

SampleRule(type) == ParseFromJson(transformer(SampleValue, type))

\* The rows the page shows before the lists come are samples: they become rules
\* only by an upload made before that.
NoSampleRules ==
    (\E i \in DOMAIN policy : \E type \in {TYPE_BLACK_LIST, TYPE_WHITE_LIST} :
        policy[i] = SampleRule(type))
    => <<"lists unknown">> \in past

\* Only an update too long for one recv can terminate the server (through one of
\* its later pieces): no element of what pages upload makes handle throw.
AliveUnlessSplit == ~alive => <<"long update">> \in past

\* The console says alert('成功') for every answer it can parse, an error or no
\* answer at all included. Even so the rules of that upload are installed, whatever
\* the token and the order of the answers, unless some update was too long.
SuccessUnlessSplit ==
    \A c \in Consoles : \A n \in 1 .. MaxUploads :
        <<"success", c, n>> \in past =>
            <<"installed", c, n>> \in past \/ <<"long update">> \in past

\* The proxy waits for the answer to an empty body, for which nothing was sent.
StuckOnEmpty == proxy.at = "waiting" /\ proxy.req.opt = "empty"

\* Every request of a page gets an answer, with the server alive or dead, unless
\* the proxy waits forever on behalf of a client that posted an empty body.
RequestAnswered ==
    \A c \in Consoles : \A v \in 1 .. MaxVisits :
        \A k \in {<<"rules", 0>>, <<"status", 0>>} \cup ({"update"} \X (1 .. MaxUploads)) :
            LET IsIt(r) == r.from = c /\ r.visit = v /\ <<r.opt, r.nr>> = k IN
            []((\E r \in wire : IsIt(r)) => <>((\E b \in back : IsIt(b.req)) \/ []StuckOnEmpty))
=============================================================================
