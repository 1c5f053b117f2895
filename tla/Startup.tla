------------------------------ MODULE Startup -------------------------------
(***************************************************************************)
(* What main does before the server runs (src/src/backend/main.cpp 85-162):*)
(* arg_parser reads the arguments one by one, configuration reads the file *)
(* line by line, and the settings of the file, of the command line and of  *)
(* the environment are put into the globals the rest of the program reads. *)
(* color.cpp decides about colours once, whenever it is first asked.       *)
(*                                                                         *)
(* An argument is its dashes and what follows them; a line, and the value  *)
(* of an environment variable, is a sequence of words and of the signs     *)
(* that mean something: blanks are gone and case is lower.                 *)
(***************************************************************************)
EXTENDS Integers, FiniteSets, SequencesExt

CONSTANTS Arguments,    \* arguments a user may give: [dashes: 0 .. 2, rest: a word or ""]
          MaxArgs,      \* how many of them
          Lines,        \* lines a file may have
          MaxLines,     \* how many of them
          Environments, \* values of COLOR, VERBOSE, BACKTRACE_LEVEL, TRIM_SYMBOL and others
          Variable,     \* the variable a %NAME% of the file stands for
          Number,       \* what the numerals stand for
          LongSpan,     \* 2^64: a long long is -LongSpan/2 .. LongSpan/2 - 1
          IntSpan,      \* 2^32: an int is -IntSpan/2 .. IntSpan/2 - 1
          PortSpan      \* 2^16: a port is 0 .. PortSpan - 1

ASSUME StartupAssumption ==
    /\ MaxArgs \in Nat /\ MaxLines \in Nat
    /\ IntSpan \in Nat \ {0} /\ IntSpan % 2 = 0 /\ PortSpan \in Nat \ {0}
    /\ LongSpan \in Nat /\ LongSpan >= IntSpan
    /\ Number \in [DOMAIN Number -> Int]

VARIABLES
    at,       \* where main is
    argv,     \* the arguments read so far
    current,  \* current_arg: the parameter that waits for its value, or ""
    args,     \* non_bare_args
    bare,     \* bare
    lines,    \* the lines read so far
    section,  \* section, <<>> before the first head
    config,   \* config_: the values of each section and key
    env,      \* the environment
    tty,      \* is standard output a terminal?
    verbose,  \* debug::verbose
    noColor,  \* color::g_no_color
    cache,    \* is_no_color_cache
    level,    \* debug::g_pre_defined_level
    trim,     \* debug::g_trim_symbol
    port, host

parsing == <<argv, current, args, bare>>
reading == <<lines, section, config>>
settings == <<verbose, noColor, level, trim, port, host>>
startupVars == <<at, parsing, reading, env, tty, settings, cache>>

Parameters == {[name |-> "help", short |-> "h", value |-> FALSE],
               [name |-> "version", short |-> "v", value |-> FALSE],
               [name |-> "config", short |-> "c", value |-> TRUE],
               [name |-> "verbose", short |-> "V", value |-> FALSE]}

\* The empty word.
NoWord == ""

StartupInit ==
    /\ at = "args"
    /\ argv = <<>> /\ current = NoWord /\ args = <<>> /\ bare = <<>>
    /\ lines = <<>> /\ section = <<>> /\ config = <<>>
    /\ env \in Environments /\ tty \in BOOLEAN
    /\ verbose = FALSE /\ noColor = FALSE /\ cache = "unset"
    /\ level = -1 /\ trim = FALSE /\ port = 0 /\ host = <<>>
-----------------------------------------------------------------------------
\* is_no_color, and every colour printed: the first to ask settles it for all.
Decide ==
    IF env.COLOR = <<"always">> THEN "colour"
    ELSE IF env.COLOR \in {<<"never">>, <<"off">>} \/ ~tty \/ noColor THEN "plain"
    ELSE "colour"
AskColour == cache' = IF cache = "unset" THEN Decide ELSE cache

\* A runtime_error colours its text; main prints it and returns EXIT_FAILURE.
Refuse(why) == at' = why /\ AskColour

IsOption(a) == a.dashes > 0 /\ (a.dashes = 2 \/ a.rest # NoWord)
Short == {p.short : p \in Parameters}
\* get_short_name, get_long_name: one dash goes with one letter only.
NameOf(a) == IF a.dashes = 2 \/ a.rest \in Short THEN a.rest ELSE NoWord
Named(a) == {p \in Parameters : NameOf(a) \in {p.name, p.short}}

\* Mutant: a parameter that comes again replaces its value.
EmplaceOver(f, n, v) == [m \in DOMAIN f \cup {n} |-> IF m = n THEN v ELSE f[m]]
Emplace(f, n, v) == [m \in DOMAIN f \cup {n} |-> IF m \in DOMAIN f THEN f[m] ELSE v]

\* One turn of the loop over argv; a bare argument ends the options.
NextArg(a) ==
    /\ at = "args" /\ Len(argv) < MaxArgs
    /\ argv' = Append(argv, a)
    /\ \/ /\ IsOption(a) /\ bare = <<>>
          /\ current # NoWord \/ Named(a) = {}
          /\ Refuse("badArgument")
          /\ UNCHANGED <<current, args, bare>>
       \/ /\ IsOption(a) /\ bare = <<>> /\ current = NoWord
          /\ \E p \in Named(a) : IF p.value
                                 THEN current' = p.name /\ UNCHANGED args
                                 ELSE args' = Emplace(args, p.name, <<>>) /\ UNCHANGED current
          /\ UNCHANGED <<at, bare, cache>>
       \/ /\ ~IsOption(a) \/ bare # <<>>
          /\ IF current = NoWord
             THEN bare' = Append(bare, a) /\ UNCHANGED <<current, args>>
             ELSE args' = Emplace(args, current, a) /\ current' = NoWord /\ UNCHANGED bare
          /\ UNCHANGED <<at, cache>>
    /\ UNCHANGED <<reading, env, tty, settings>>

EndArgs ==
    /\ at = "args"
    /\ IF current # NoWord THEN Refuse("badArgument") ELSE at' = "options" /\ UNCHANGED cache
    /\ UNCHANGED <<parsing, reading, env, tty, settings>>
-----------------------------------------------------------------------------
\* print_help or the versions, in colour.
PrintOnly ==
    /\ at = "options"
    /\ {"help", "version"} \cap DOMAIN args # {}
    /\ at' = "printed" /\ AskColour
    /\ UNCHANGED <<parsing, reading, env, tty, settings>>

\* Nothing but args is looked at from here on.
Forget == argv' = <<>> /\ bare' = <<>> /\ UNCHANGED <<current, args>>

\* Mutant: the switch is set before the message that would say so again.
VerboseSwitchFirst ==
    /\ at = "options"
    /\ {"help", "version"} \cap DOMAIN args = {}
    /\ at' = "open"
    /\ verbose' = (verbose \/ "verbose" \in DOMAIN args)
    /\ IF verbose' THEN AskColour ELSE UNCHANGED cache
    /\ Forget
    /\ UNCHANGED <<reading, env, tty, noColor, level, trim, port, host>>

VerboseSwitch ==
    /\ at = "options"
    /\ {"help", "version"} \cap DOMAIN args = {}
    /\ at' = "open"
    /\ verbose' = (verbose \/ "verbose" \in DOMAIN args)
    /\ IF verbose THEN AskColour ELSE UNCHANGED cache
    /\ Forget
    /\ UNCHANGED <<reading, env, tty, noColor, level, trim, port, host>>

\* No configuration file given, or one that cannot be opened.
OpenConfig ==
    /\ at = "open"
    /\ \/ Refuse("noConfig")
       \/ "config" \in DOMAIN args /\ at' = "lines" /\ UNCHANGED cache
    /\ UNCHANGED <<parsing, reading, env, tty, settings>>

\* clean_line, get_section and get_pair.
First(l, sign) == SelectInSeq(l, LAMBDA w : w = sign)
Clean(l) == IF First(l, "#") = 0 THEN l ELSE SubSeq(l, 1, First(l, "#") - 1)
SectionOf(l) ==
    IF Len(l) > 2 /\ l[1] = "[" /\ First(l, "]") = Len(l) THEN SubSeq(l, 2, Len(l) - 1) ELSE <<>>
KeyOf(l) == IF First(l, "=") > 1 THEN SubSeq(l, 1, First(l, "=") - 1) ELSE <<>>
ValueOf(l) == SubSeq(l, First(l, "=") + 1, Len(l))

\* process_value: each %NAME% of the value, in turn, is replaced wherever it stands.
Get(e, v) == IF v \in DOMAIN e THEN e[v] ELSE <<>>
Put(e, v, ref) ==
    FlattenSeq([i \in DOMAIN v |-> IF v[i] = ref THEN Get(e, Variable[ref]) ELSE <<v[i]>>])
Expand(e, v) == FoldLeft(LAMBDA u, w : IF w \in DOMAIN Variable THEN Put(e, u, w) ELSE u, v, v)

\* Mutant: the second line for a key is not kept.
AddOnce(f, k, v) == [j \in DOMAIN f \cup {k} |-> IF j \in DOMAIN f THEN f[j] ELSE <<v>>]
Add(f, k, v) ==
    [j \in DOMAIN f \cup {k} |-> IF j = k THEN Append(IF k \in DOMAIN f THEN f[k] ELSE <<>>, v)
                                          ELSE f[j]]

NextLine(line) ==
    /\ at = "lines" /\ Len(lines) < MaxLines
    /\ lines' = Append(lines, line)
    /\ LET l == Clean(line)
       IN  \/ /\ SectionOf(l) # <<>>
              /\ section' = SectionOf(l)
              /\ UNCHANGED <<at, config, cache>>
           \/ /\ SectionOf(l) = <<>> /\ KeyOf(l) # <<>>
              /\ IF section = <<>>
                 THEN Refuse("badFile") /\ UNCHANGED config
                 ELSE /\ config' = Add(config, <<section, KeyOf(l)>>, Expand(env, ValueOf(l)))
                      /\ UNCHANGED <<at, cache>>
              /\ UNCHANGED section
           \/ /\ SectionOf(l) = <<>> /\ KeyOf(l) = <<>>
              /\ UNCHANGED <<at, section, config, cache>>
    /\ UNCHANGED <<parsing, env, tty, settings>>

EndLines ==
    /\ at = "lines" /\ at' = "verbose"
    /\ UNCHANGED <<parsing, reading, env, tty, settings, cache>>
-----------------------------------------------------------------------------
Setting == [verbose |-> <<<<"debug">>, <<"verbose">>>>,
            color |-> <<<<"general">>, <<"color">>>>,
            backtrace_level |-> <<<<"debug">>, <<"backtrace_level">>>>,
            trim_symbol |-> <<<<"debug">>, <<"trim_symbol">>>>,
            port |-> <<<<"server">>, <<"port">>>>,
            listen_addr |-> <<<<"server">>, <<"listen_addr">>>>]

Values(s) == IF Setting[s] \in DOMAIN config THEN config[Setting[s]] ELSE <<>>
Numeric(v) == v # <<>> /\ v[1] \in DOMAIN Number

\* Mutant: a setting given twice counts as the first.
SingleOrMore(s) == TRUE
Single(s) == Len(Values(s)) <= 1

\* get<std::string> and get<int>: "" and -1 for what the file does not set.
Text(s) == IF Values(s) = <<>> THEN <<>> ELSE Values(s)[1]
Ints == -(IntSpan \div 2) .. IntSpan \div 2 - 1
AsInt(n) == ((n + IntSpan \div 2) % IntSpan) - IntSpan \div 2
Integer(s) == IF Values(s) = <<>> THEN -1 ELSE AsInt(Number[Text(s)[1]])
\* stoll refuses what is no number and what a long long cannot hold.
Longs == -(LongSpan \div 2) .. LongSpan \div 2 - 1
IntOK(s) ==
    Single(s) /\ (Values(s) # <<>> => Numeric(Text(s)) /\ Number[Text(s)[1]] \in Longs)

\* true_false_helper; stoi refuses what an int cannot hold.
TrueFalse(v) == \/ v = <<"true">>
                \/ Numeric(v) /\ Number[v[1]] \in Ints /\ Number[v[1]] # 0

\* One line of main: a setting goes to its global, or main refuses to start.
ReadSetting(s, ok, next) ==
    /\ at = s
    /\ IF ok THEN at' = next /\ UNCHANGED cache ELSE Refuse("badSetting")
    /\ UNCHANGED <<parsing, reading, env, tty>>
To(ok, new, old) == IF ok THEN new ELSE old

ReadVerbose ==
    /\ ReadSetting("verbose", Single("verbose"), "color")
    /\ verbose' = To(Single("verbose"), TrueFalse(Text("verbose")), verbose)
    /\ UNCHANGED <<noColor, level, trim, port, host>>

ReadColor ==
    /\ ReadSetting("color", Single("color"), "backtrace_level")
    /\ noColor' = To(Single("color"), ~TrueFalse(Text("color")), noColor)
    /\ UNCHANGED <<verbose, level, trim, port, host>>

ReadLevel ==
    /\ ReadSetting("backtrace_level", IntOK("backtrace_level"), "trim_symbol")
    /\ level' = IF IntOK("backtrace_level") THEN Integer("backtrace_level") ELSE level
    /\ UNCHANGED <<verbose, noColor, trim, port, host>>

ReadTrim ==
    /\ ReadSetting("trim_symbol", Single("trim_symbol"), "environment")
    /\ trim' = To(Single("trim_symbol"), TrueFalse(Text("trim_symbol")), trim)
    /\ UNCHANGED <<verbose, noColor, level, port, host>>

\* strtoll gives the nearest number a long long can hold.
Nearest(n) == IF n \in Longs THEN n
              ELSE IF n < 0 THEN -(LongSpan \div 2) ELSE LongSpan \div 2 - 1

\* What a backtrace asks for, whenever one is made.
BacktraceLevel ==
    IF env.BACKTRACE_LEVEL = <<>> THEN level
    ELSE IF Numeric(env.BACKTRACE_LEVEL) THEN AsInt(Nearest(Number[env.BACKTRACE_LEVEL[1]])) ELSE 0
TrimSymbol == IF env.TRIM_SYMBOL = <<>> THEN trim ELSE TrueFalse(env.TRIM_SYMBOL)

\* Mutant: the environment can only switch the messages on.
EnvVerboseOn ==
    /\ at = "environment" /\ at' = "port"
    /\ verbose' = (verbose \/ TrueFalse(env.VERBOSE))
    /\ UNCHANGED <<parsing, reading, env, tty, noColor, level, trim, port, host, cache>>

\* In a debug build a message says that the environment switched them off.
EnvVerbose ==
    /\ at = "environment" /\ at' = "port"
    /\ verbose' = IF env.VERBOSE = <<>> THEN verbose ELSE TrueFalse(env.VERBOSE)
    /\ \/ verbose /\ ~verbose' /\ AskColour
       \/ UNCHANGED cache
    /\ UNCHANGED <<parsing, reading, env, tty, noColor, level, trim, port, host>>

ReadPort ==
    /\ ReadSetting("port", IntOK("port"), "listen_addr")
    /\ port' = IF ~IntOK("port") THEN port ELSE IF Integer("port") = -1 THEN 8080 ELSE Integer("port")
    /\ UNCHANGED <<verbose, noColor, level, trim, host>>

ReadHost ==
    /\ ReadSetting("listen_addr", Single("listen_addr"), "bind")
    /\ host' = IF ~Single("listen_addr") THEN host
               ELSE IF Text("listen_addr") = <<>> THEN <<"127.0.0.1">> ELSE Text("listen_addr")
    /\ UNCHANGED <<verbose, noColor, level, trim, port>>

\* Mutant: the port is not cut to its width.
BindWide ==
    /\ at = "bind" /\ at' = "serving"
    /\ UNCHANGED <<parsing, reading, env, tty, settings, cache>>

\* App::port takes a uint16_t.
Bind ==
    /\ at = "bind" /\ at' = "serving"
    /\ port' = port % PortSpan
    /\ UNCHANGED <<parsing, reading, env, tty, verbose, noColor, level, trim, host, cache>>

\* A message of the running server.
Log ==
    /\ at = "serving" /\ cache = "unset"
    /\ AskColour
    /\ UNCHANGED <<at, parsing, reading, env, tty, settings>>
-----------------------------------------------------------------------------
Refusals == {"badArgument", "noConfig", "badFile", "badSetting"}

StartupNext ==
    \/ \E a \in Arguments : NextArg(a)
    \/ EndArgs \/ PrintOnly \/ VerboseSwitch \/ OpenConfig
    \/ \E l \in Lines : NextLine(l)
    \/ EndLines
    \/ ReadVerbose \/ ReadColor \/ ReadLevel \/ ReadTrim \/ EnvVerbose \/ ReadPort \/ ReadHost
    \/ Bind \/ Log

StartupSpec == StartupInit /\ [][StartupNext]_startupVars
-----------------------------------------------------------------------------
Places == {"args", "options", "printed", "open", "lines", "environment", "bind", "serving"}
          \cup DOMAIN Setting \cup Refusals

\* The type invariant; a port is one once the server has it.
StartupTypeOK ==
    /\ at \in Places
    /\ argv \in Seq(Arguments) /\ bare \in Seq(Arguments)
    /\ current \in {NoWord} \cup {p.name : p \in Parameters}
    /\ DOMAIN args \subseteq {p.name : p \in Parameters}
    /\ lines \in Seq(Lines)
    /\ env \in Environments /\ {tty, verbose, noColor, trim} \subseteq BOOLEAN
    /\ cache \in {"unset", "plain", "colour"}
    /\ level \in Ints
    /\ port \in IF at = "serving" THEN 0 .. PortSpan - 1 ELSE Int

NeedsValue(a) == \E p \in Named(a) : p.value
\* The option at i needs a value and has one, or is the last so far.
ValueAt(i) == /\ i \in 2 .. Len(argv)
              /\ IsOption(argv[i - 1]) /\ NeedsValue(argv[i - 1])
              /\ ~IsOption(argv[i])
\* The options and their values, before the first argument that is neither.
Leading == {i \in DOMAIN argv : \A j \in 1 .. i : IsOption(argv[j]) \/ ValueAt(j)}
Options == {i \in Leading : IsOption(argv[i])}
Faulty(i) == \/ Named(argv[i]) = {}
             \/ /\ NeedsValue(argv[i])
                /\ IF i < Len(argv) THEN ~ValueAt(i + 1) ELSE at # "args"
\* Where p is given, with its value if it has one.
Given(p) == {i \in Options : p \in Named(argv[i]) /\ (p.value => ValueAt(i + 1))}

AsksHelp == \E i \in Options : \E p \in Named(argv[i]) : p.name = "help"

\* Arguments mean what their order says: up to the first that is neither an option nor the value of
\* one, each parameter has the value it was first given; the rest is bare.  The program refuses only
\* command lines with an unknown option or one without its value, and obeys no such line, unless it
\* asks for help: of those nothing is said, as main.cpp:100 wants help "processed first [...] and
\* ignore all other arguments", and the parser, which main calls earlier, refuses them too.
ArgsAsGiven ==
    /\ at = "badArgument" => \E i \in Options : Faulty(i)
    /\ at \in {"options", "printed"} /\ ~AsksHelp => \A i \in Options : ~Faulty(i)
    /\ at \in {"args", "options", "printed"} =>
         /\ bare = SubSeq(argv, Cardinality(Leading) + 1, Len(argv))
         /\ \A p \in Parameters :
              /\ (p.name \in DOMAIN args) <=> (Given(p) # {})
              /\ \A i \in Given(p) : (\A j \in Given(p) : i <= j) =>
                    args[p.name] = IF p.value THEN argv[i + 1] ELSE <<>>

IsHead(l) == SectionOf(Clean(l)) # <<>>
\* The line whose head a line of the file stands under, or 0.
HeadAt(i) == SelectLastInSubSeq(lines, 1, i, IsHead)
PairAt(i) == ~IsHead(lines[i]) /\ KeyOf(Clean(lines[i])) # <<>>
Under(i) == <<SectionOf(Clean(lines[HeadAt(i)])), KeyOf(Clean(lines[i]))>>
\* The lines that set the key k, a section and a name.
LinesOf(k) == {i \in DOMAIN lines : PairAt(i) /\ HeadAt(i) # 0 /\ Under(i) = k}

\* The settings are those of the file: under each section and key the values of its lines, in their
\* order; a file with a value before the first head is refused, and no other.
ConfigAsWritten ==
    /\ (at = "badFile") <=> (\E i \in DOMAIN lines : PairAt(i) /\ HeadAt(i) = 0)
    /\ DOMAIN config = {Under(i) : i \in {h \in DOMAIN lines : PairAt(h) /\ HeadAt(h) # 0}}
    /\ \A k \in DOMAIN config :
          /\ Len(config[k]) = Cardinality(LinesOf(k))
          /\ \A i \in LinesOf(k) :
                config[k][Cardinality(LinesOf(k) \cap 1 .. i)] = Expand(env, ValueOf(Clean(lines[i])))

\* example.config 3-9, "can be overridden by BACKTRACE_LEVEL", "VERBOSE", "TRIM_SYMBOL": the server
\* runs with what the environment says, or else the file; its port is the file's if there is such a
\* port.  Nothing is said of the verbosity when it was switched on by -V, "Enable verbose output"
\* (main.cpp:19), and not by the environment: main.cpp:129 then puts the file's over it.
Overridden ==
    at = "serving" =>
        /\ env.VERBOSE # <<>> \/ "verbose" \notin DOMAIN args =>
              verbose = TrueFalse(IF env.VERBOSE # <<>> THEN env.VERBOSE ELSE Text("verbose"))
        /\ TrimSymbol = TrueFalse(IF env.TRIM_SYMBOL # <<>> THEN env.TRIM_SYMBOL ELSE Text("trim_symbol"))
        /\ env.BACKTRACE_LEVEL = <<>> => BacktraceLevel = Integer("backtrace_level")
        /\ Numeric(env.BACKTRACE_LEVEL) /\ Number[env.BACKTRACE_LEVEL[1]] \in Ints =>
              BacktraceLevel = Number[env.BACKTRACE_LEVEL[1]]
        /\ host # <<>>
        /\ Integer("port") \in 0 .. PortSpan - 1 => port = Integer("port")
        /\ Values("port") = <<>> => port = 8080 % PortSpan

\* example.config 9: a server's messages are in colour if standard output is a terminal, the file
\* says so and COLOR does not forbid it, or if COLOR asks for it always.
ColourAsSet ==
    at = "serving" /\ cache # "unset" =>
        (cache = "colour" <=> \/ env.COLOR = <<"always">>
                              \/ /\ tty /\ TrueFalse(Text("color"))
                                 /\ env.COLOR \notin {<<"never">>, <<"off">>})

\* The server never runs with a setting the file gives twice, or with a number that is none or that
\* no long long holds.
NeverGuesses ==
    at = "serving" =>
        /\ \A s \in DOMAIN Setting : Cardinality(LinesOf(Setting[s])) <= 1
        /\ \A s \in {"port", "backtrace_level"} :
              Values(s) # <<>> => Numeric(Values(s)[1]) /\ Number[Values(s)[1][1]] \in Longs
=============================================================================
