-------------------------------- MODULE Hid --------------------------------
(***************************************************************************)
(* What hid.rs reads out of a device's descriptors: the HID interfaces in  *)
(* its configuration (find_interfaces) and the reports in an interface's   *)
(* report descriptor (log_report_summary).                                 *)
(*                                                                         *)
(* A configuration is a sequence of descriptors, a report descriptor a     *)
(* sequence of items; how they are coded in bytes is left out.  An item    *)
(* that sets a global, saves or restores them or is a main item is         *)
(* modelled, the others are "other".                                       *)
(***************************************************************************)
EXTENDS Integers, SequencesExt

CONSTANTS
  MAX_HID_INTERFACES,  \* interfaces kept
  MAX_REPORTS,         \* reports kept
  STACK_LEN,           \* entries of the stack of saved globals
  FEATURE_BUF_LEN,     \* longest feature report read
  U32                  \* 2^32, where a report's bits wrap around

ASSUME HidAssumption ==
  /\ MAX_HID_INTERFACES \in Nat \ {0} /\ MAX_REPORTS \in Nat \ {0}
  /\ STACK_LEN \in Nat /\ FEATURE_BUF_LEN \in Nat \ {0} /\ U32 \in Nat \ {0}

NoEndpoint == 0
USAGE_PAGE_PS_AUTH == "auth"

\* The descriptors of a configuration, and the items of a report descriptor.
Descriptor ==
  [kind : {"interface"}, number : Nat, class : STRING, alt : Nat]
    \cup [kind : {"endpoint"}, type : STRING, dir : {"in", "out"}, addr : Nat \ {NoEndpoint}]
    \cup [kind : {"hid"}, lens : Seq(Nat)]

ReportKinds == {"input", "output", "feature"}
Item ==
  [item : {"main"}, kind : ReportKinds]
    \cup [item : {"global"}, field : {"page"}, value : STRING]
    \cup [item : {"global"}, field : {"size", "count", "id"}, value : Nat]
    \cup [item : {"push", "pop", "other"}]

-----------------------------------------------------------------------------
(* find_interfaces *)

\* Faulty variant: an alternate setting, or another class, does not end the
\* interface before.
on_interfaceRunsOn(finder, x) ==
  IF x.class # "hid" \/ x.alt # 0 THEN finder
  ELSE IF Len(finder.ifaces) = MAX_HID_INTERFACES THEN [finder EXCEPT !.current = 0]
  ELSE [ifaces |-> Append(finder.ifaces, [number |-> x.number, report_desc_len |-> 0,
                                          in |-> NoEndpoint, out |-> NoEndpoint]),
        current |-> Len(finder.ifaces) + 1]

\* Faulty variant: one interface more than there are slots.
on_interfaceOneMore(finder, x) ==
  IF x.class # "hid" \/ x.alt # 0 \/ Len(finder.ifaces) > MAX_HID_INTERFACES
  THEN [finder EXCEPT !.current = 0]
  ELSE [ifaces |-> Append(finder.ifaces, [number |-> x.number, report_desc_len |-> 0,
                                          in |-> NoEndpoint, out |-> NoEndpoint]),
        current |-> Len(finder.ifaces) + 1]

on_interface(finder, x) ==
  IF x.class # "hid" \/ x.alt # 0 \/ Len(finder.ifaces) = MAX_HID_INTERFACES
  THEN [finder EXCEPT !.current = 0]
  ELSE [ifaces |-> Append(finder.ifaces, [number |-> x.number, report_desc_len |-> 0,
                                          in |-> NoEndpoint, out |-> NoEndpoint]),
        current |-> Len(finder.ifaces) + 1]

on_endpoint(finder, x) ==
  LET i == finder.current IN
  IF i = 0 \/ x.type # "interrupt" \/ finder.ifaces[i][x.dir] # NoEndpoint THEN finder
  ELSE [finder EXCEPT !.ifaces[i][x.dir] = x.addr]

\* A HID descriptor, with the lengths of the report descriptors it lists; the first
\* is taken.
on_other(finder, x) ==
  IF finder.current = 0 \/ x.lens = <<>> THEN finder
  ELSE [finder EXCEPT !.ifaces[finder.current].report_desc_len = Head(x.lens)]

Visit(finder, x) ==
  CASE x.kind = "interface" -> on_interface(finder, x)
    [] x.kind = "endpoint"  -> on_endpoint(finder, x)
    [] x.kind = "hid"       -> on_other(finder, x)

\* The finder, after each of the descriptors.
Finder(config) ==
  LET after[n \in 0..Len(config)] ==
        IF n = 0 THEN [ifaces |-> <<>>, current |-> 0] ELSE Visit(after[n - 1], config[n])
  IN after

find_interfaces(config) == Finder(config)[Len(config)].ifaces

\* The reference.  The HID interfaces of a configuration, by their place in it;
\* what belongs to the interface at i; the first endpoint of a direction there.
HidAt(config) ==
  {i \in DOMAIN config :
     config[i].kind = "interface" /\ config[i].class = "hid" /\ config[i].alt = 0}

Of(config, i) ==
  {j \in DOMAIN config : j > i /\ \A k \in (i + 1)..j : config[k].kind # "interface"}

FirstEndpoint(config, i, dir) ==
  LET some == {j \in Of(config, i) : /\ config[j].kind = "endpoint"
                                     /\ config[j].type = "interrupt"
                                     /\ config[j].dir = dir}
  IN IF some = {} THEN NoEndpoint ELSE config[Min(some)].addr

\* ifaces are the first of the HID interfaces, in their order, each with what
\* belongs to it.
Finds(ifaces, config) ==
  /\ Len(ifaces) = Min({MAX_HID_INTERFACES, Cardinality(HidAt(config))})
  /\ \A i \in HidAt(config) :
       LET n == Cardinality({j \in HidAt(config) : j <= i}) IN
       n <= Len(ifaces) =>
         /\ ifaces[n].number = config[i].number
         /\ \A dir \in {"in", "out"} : ifaces[n][dir] = FirstEndpoint(config, i, dir)

-----------------------------------------------------------------------------
(* log_report_summary *)

DefaultGlobals == [page |-> "none", size |-> 0, count |-> 0, id |-> 0]

\* A report's bits are counted in 32 bits.
Wrap(bits) == bits % U32

\* Faulty variant: a report's usage page is that of its last main item.
MainLastPage(summary, kind) ==
  LET g == summary.g
      same == {n \in DOMAIN summary.reports :
                 summary.reports[n].id = g.id /\ summary.reports[n].kind = kind}
  IN IF same # {}
     THEN [summary EXCEPT !.reports[Min(same)].bits = Wrap(@ + g.size * g.count),
                          !.reports[Min(same)].page = g.page]
     ELSE IF Len(summary.reports) = MAX_REPORTS THEN summary
     ELSE [summary EXCEPT !.reports =
             Append(@, [id |-> g.id, kind |-> kind, bits |-> Wrap(g.size * g.count),
                        page |-> g.page])]

Main(summary, kind) ==
  LET g == summary.g
      same == {n \in DOMAIN summary.reports :
                 summary.reports[n].id = g.id /\ summary.reports[n].kind = kind}
  IN IF same # {}
     THEN [summary EXCEPT !.reports[Min(same)].bits = Wrap(@ + g.size * g.count)]
     ELSE IF Len(summary.reports) = MAX_REPORTS THEN summary
     ELSE [summary EXCEPT !.reports =
             Append(@, [id |-> g.id, kind |-> kind, bits |-> Wrap(g.size * g.count),
                        page |-> g.page])]

\* Push and Pop, ignored when the stack is full and when it is empty.
SaveGlobals(summary) ==
  IF Len(summary.stack) = STACK_LEN THEN summary
  ELSE [summary EXCEPT !.stack = <<summary.g>> \o @]

RestoreGlobals(summary) ==
  IF summary.stack = <<>> THEN summary
  ELSE [summary EXCEPT !.g = Head(summary.stack), !.stack = Tail(@)]

Summarise(summary, x) ==
  CASE x.item = "main"   -> Main(summary, x.kind)
    [] x.item = "global" -> [summary EXCEPT !.g[x.field] = x.value]
    [] x.item = "push"   -> SaveGlobals(summary)
    [] x.item = "pop"    -> RestoreGlobals(summary)
    [] x.item = "other"  -> summary

\* The locals of log_report_summary, after each of the items.
Summary(desc) ==
  LET after[n \in 0..Len(desc)] ==
        IF n = 0 THEN [g |-> DefaultGlobals, stack |-> <<>>, reports |-> <<>>]
        ELSE Summarise(after[n - 1], desc[n])
  IN after

log_report_summary(desc) == Summary(desc)[Len(desc)].reports

\* read_feature_reports: the feature reports with an ID, and how much of one is
\* asked for.
IsFeature(report) == report.kind = "feature" /\ report.id # 0
FeatureLen(bits) == Min({(bits + 7) \div 8 + 1, FEATURE_BUF_LEN})

\* The reference.  The Push that the Pop at p belongs to, 0 if there is none;
\* the Pushes that are open at k; the globals in effect at k.
Nested(desc, i, j) ==
  Cardinality({k \in i..j : desc[k].item = "push"}) - Cardinality({k \in i..j : desc[k].item = "pop"})

PushOf(desc, p) ==
  LET open == {q \in 1..(p - 1) : desc[q].item = "push" /\ Nested(desc, q, p - 1) = 1}
  IN IF open = {} THEN 0 ELSE Max(open)

Open(desc, k) ==
  {q \in 1..(k - 1) :
     desc[q].item = "push" /\ \A p \in q..(k - 1) : desc[p].item = "pop" => PushOf(desc, p) # q}

InEffect(desc) ==
  LET at[k \in 1..(Len(desc) + 1)] ==
        IF k = 1 THEN DefaultGlobals
        ELSE LET x == desc[k - 1] IN
             CASE x.item = "global" -> [at[k - 1] EXCEPT ![x.field] = x.value]
               [] x.item = "pop" /\ PushOf(desc, k - 1) # 0 -> at[PushOf(desc, k - 1)]
               [] OTHER -> at[k - 1]
  IN at

\* The main items of a report, and the reports of a descriptor.
MainItems(desc, id, kind) ==
  {k \in DOMAIN desc :
     desc[k].item = "main" /\ desc[k].kind = kind /\ InEffect(desc)[k].id = id}

Reports(desc) ==
  {<<InEffect(desc)[k].id, desc[k].kind>> : k \in {i \in DOMAIN desc : desc[i].item = "main"}}

\* How many bits each item adds to its report, and how many a report has.
Sizes(desc) == [k \in DOMAIN desc |-> InEffect(desc)[k].size * InEffect(desc)[k].count]

BitsOf(desc, id, kind) == SumFunctionOnSet(Sizes(desc), MainItems(desc, id, kind))

\* The usage page of a report is that of its first main item.
PageOf(desc, id, kind) == InEffect(desc)[Min(MainItems(desc, id, kind))].page

\* What may be asked for: of every feature report with an ID, unless it is one of
\* the authentication's, the length its main items add up to.
Readable(desc) ==
  {[id |-> r[1], len |-> FeatureLen(BitsOf(desc, r[1], "feature"))] :
     r \in {s \in Reports(desc) :
              /\ s[2] = "feature" /\ s[1] # 0
              /\ PageOf(desc, s[1], "feature") # USAGE_PAGE_PS_AUTH}}

\* Descriptors that the stack is deep enough for, and that have no report too long
\* to count its bits.
StackSuffices(desc) == \A k \in DOMAIN desc : Cardinality(Open(desc, k + 1)) <= STACK_LEN
BitsFit(desc) == \A r \in Reports(desc) : BitsOf(desc, r[1], r[2]) < U32
=============================================================================
