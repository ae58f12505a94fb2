----------------------------- MODULE MCTerminal -----------------------------
(* Values for the small model of Terminal. *)
EXTENDS Terminal

\* A computer is called after its account, as often, and the home directory ends with it;
\* of the other only that directory is known, its account stands in "anana" twice, and
\* its computer's name is too short to look for.
Ann == <<"a", "n", "n">>
Ana == <<"a", "n", "a">>
Homes == <<"/", "h", "/">>
FrontDesk == Ann \o <<"-", "p", "c">>
MCMachine1 == [hostname |-> FrontDesk, user |-> Ann, home |-> [dir |-> Homes, base |-> Ann]]
MCMachine2 == [hostname |-> <<"p", "c">>, user |-> None, home |-> [dir |-> Homes, base |-> Ana]]

MCFixesHere == {"temp.clear"}

Text(field, words) == [field |-> field, kind |-> "string", value |-> words, number |-> 0]
Number(field, n) == [field |-> field, kind |-> "number", value |-> <<>>, number |-> n]
Outcome(id, severity, leaves, args, err) ==
    [CheckID |-> id, severity |-> severity, detail |-> leaves, args |-> args, err |-> err]

MCEarlier ==
    [results |-> <<Outcome("storage.volumes", "ok", <<>>, <<>>, <<>>)>>, skipped |-> {}]

\* A dotted capital I.
I == <<"i", Wide>>

MCSnapshots ==
    {[results |->
        <<Outcome("network.config", "attention",
                 <<Text("hostname", <<"x">> \o FrontDesk), Text("addresses", <<"odd">>),
                   Text("note", <<"x", " ", "ipv4", " ">> \o Ann \o <<"e">>),
                   Text("dhcp", <<"fe80::", "ipv6", " ", "mac with dashes">>)>>,
                 <<Text("", FrontDesk), Text("", <<"fe80::1">>), Number("", 2)>>, <<>>),
          Outcome("updates.installed", "ok",
                 <<Number("recorded", 3), Text("patches", <<"p1">>), Text("serial", <<"SN4711">>)>>,
                 <<>>, I \o I \o Ann \o <<"i">>)>>,
      skipped |-> {}],
     [results |->
        <<Outcome("storage.volumes", "unknown", <<>>, <<>>,
                 <<"x">> \o Homes \o Ann \o <<"/", "y">> \o Homes \o Ana \o <<"/">>),
          Outcome("updates.installed", "urgent", <<Text("path", Ana \o <<"n", "a">> \o Homes \o Ann)>>,
                 <<Text("", <<"mac", " ", "ipv6">>)>>, <<>>)>>,
      skipped |-> {"storage.smart"}]}

Expect(check, worst) == [check |-> check, worst |-> worst, offer |-> {"temp.clear"}]
Good == [schema |-> 1, name |-> "office",
         expectations |-> <<Expect("updates.installed", "attention"), Expect("network.config", "attention")>>]
Twice == [Good EXCEPT !.expectations = <<Expect("updates.installed", "ok"), Expect("updates.installed", "urgent")>>]

Image == [name |-> "report.html", kind |-> "file", media |-> "image"]

Options(flags) ==
    [flags |-> flags, endpoint |-> "https", server |-> "https", attach |-> <<>>,
     describe |-> "", profile |-> Good]

\* One line for each read, or the lines of a pipe in one.
Typed(lines) == {[i \in DOMAIN lines |-> <<lines[i]>>], IF lines = <<>> THEN <<>> ELSE <<lines>>}

Given(o, inputs, machines) == [opts : {o}, stdin : inputs, machine : machines]
Plain(flags) == Given(Options(flags), {<<>>}, {MCMachine1})
Both == {MCMachine1, MCMachine2}

RefusedLines ==
    {Options({"unreadable"}), Options({"json", "text"}), Options({"monthly", "schedule"}),
     Options({"remote-tool"}), Options({"fix", "wizard"}), Options({"text", "report"}),
     [Options({"text"}) EXCEPT !.attach = <<Image>>],
     [Options({"text", "assist"}) EXCEPT !.endpoint = "http"],
     [Options({"text", "report", "fleet-name"}) EXCEPT !.server = "none"]}

MCStarts ==
    UNION {Given(o, {<<>>}, {MCMachine1}) : o \in RefusedLines}
    \cup UNION {Plain({f}) : f \in ListModes \cup {"version", "json"}}
    \cup UNION {Plain(f) : f \in {{}, {"in-browser"}, {"no-browser"}}}
    \cup Given(Options({"monthly"}), {<<>>}, Both)
    \cup UNION {Given([Options({"ticket"}) EXCEPT !.attach = a, !.describe = d], {<<>>}, Both) :
                    a \in {<<>>, <<Image>>, <<[Image EXCEPT !.kind = "growing"]>>, <<Image, Image, Image>>},
                    d \in {"", "over the limit"}}
    \cup UNION {Given([Options(f) EXCEPT !.profile = p], {<<>>}, {MCMachine1}) :
                    f \in {{"profile"}, {"profile", "json"}}, p \in {Good, Twice}}
    \cup Given(Options({"text", "assist", "report", "fleet-name"}),
               UNION {Typed(l) : l \in {<<"send">>, <<"no", "send">>, <<"send", "send">>}}, Both)
    \cup Given(Options({"text", "report", "fleet-name"}), {<<>>, <<<<"send">>>>}, Both)
    \cup UNION {Given(Options(f), UNION {Typed(l) : l \in {<<"id">>, <<"id", "undo">>,
                        <<"id", "yes", "undo">>, <<"yes", "id">>}}, {MCMachine1}) :
                    f \in {{"fix"}, {"fix", "dry-run"}}}
    \cup UNION {Given(Options(f), UNION {Typed(l) : l \in {<<>>, <<"id">>, <<"id", "id">>,
                        <<"no", "id">>, <<"id", "yes">>}}, {MCMachine1}) :
                    f \in {{"wizard"}, {"wizard", "dry-run"}}}
    \cup UNION {Given(Options(f \cup {"remote"}), UNION {Typed(l) : l \in {<<>>, <<"allow">>,
                        <<"allow", "">>, <<"send">>}}, {MCMachine1}) :
                    f \in {{}, {"remote-tool"}, {"remote-tool", "dry-run"}}}
=============================================================================
