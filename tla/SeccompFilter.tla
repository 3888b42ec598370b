---------------------------- MODULE SeccompFilter ----------------------------
(***************************************************************************)
(* The seccomp filter: which rules the built-in policy, the                *)
(* --seccomp-allow fragment and a custom or generated profile give         *)
(* (src/src/security/seccomp.rs, seccomp_generate.rs), the classic BPF      *)
(* program compiled from them (src/src/security/seccomp_bpf.rs) and the     *)
(* kernel's run of that program on one system call, an instruction a step. *)
(*                                                                         *)
(* System calls are representatives of the classes the code tells apart,   *)
(* a bitmap word has 2^WordShift bits, and an argument is a small number   *)
(* whose bits stand for the flags the rules test.                          *)
(***************************************************************************)
EXTENDS Naturals, Sequences, FiniteSets, SequencesExt, Bitwise

CONSTANTS WordShift,      \* 5 in the code: a word holds 2^WordShift bits
          BitmapWords,    \* NUM_BITMAP_WORDS, 15 in the code
          Policies,       \* where the filter comes from, see FilterRules
          ArgValues       \* argument values of the calls tried

VARIABLES policy,         \* the source of the filter
          call,           \* the system call the workload makes
          prog,           \* the BPF program; <<>> until installed
          insn,           \* index of the next instruction, 1-based
          acc, reg, slot, \* A, X and M[0]
          verdict         \* "none" until the program returns

seccompVars == <<policy, call, prog, insn, acc, reg, slot, verdict>>

Number == [read |-> 1, sendto |-> 2, socket |-> 3, exit |-> 4, clone |-> 6,
           ioctl |-> 7, mprotect |-> 8, prctl |-> 9, prlimit64 |-> 10,
           io_uring_setup |-> 12, ptrace |-> 13, preadv2 |-> 16, setns |-> 17,
           execveat |-> 18, clone3 |-> 19]

(* The names in the order of their numbers. *)
NameOrder ==
    <<"read", "sendto", "socket", "exit", "clone", "ioctl", "mprotect", "prctl",
      "prlimit64", "io_uring_setup", "ptrace", "preadv2", "setns", "execveat",
      "clone3">>

BaseAllowed == {"read", "exit"}

NetworkSyscalls(network) == IF network THEN {"sendto"} ELSE {}

ArgFiltered ==
    {"clone", "execveat", "ioctl", "mprotect", "preadv2", "prctl", "socket"}

CriticalDenied == {"clone3", "setns"}

OptIn == {"io_uring_setup"}

ErrnoDenied == {"clone3"}

Whole == 7

Test(arg, mask, value) == [arg |-> arg, mask |-> mask, value |-> value]

(***************************************************************************)
(* The argument rules of minimal_filter: a call passes when one of the     *)
(* rules holds, a rule when all of its conditions do.  A test *)
(* against Whole compares the whole argument.                              *)
(***************************************************************************)
SocketRules(network) ==
    IF network THEN <<<<Test(0, Whole, 1)>>, <<Test(0, Whole, 2)>>>>
    ELSE <<<<Test(0, Whole, 1)>>>>

PrctlRules == <<<<Test(0, Whole, 1)>>, <<Test(0, Whole, 2), Test(1, Whole, 1)>>>>

MprotectRules == [allowed \in 1..3 |-> <<Test(0, 3, allowed - 1)>>]

ArgRules(network) ==
    [socket |-> SocketRules(network), ioctl |-> <<<<Test(1, Whole, 1)>>>>,
     prctl |-> PrctlRules, prlimit64 |-> <<<<Test(0, Whole, 0)>>>>,
     mprotect |-> MprotectRules, preadv2 |-> <<<<Test(0, Whole, 0)>>>>,
     clone |-> <<<<Test(0, 2, 0)>>>>, execveat |-> <<<<Test(0, 1, 0)>>>>]

(* A fragment that opts into whatever it names. *)
FragmentTrusted(network, extra) == extra \cap DOMAIN Number

(* What --seccomp-allow adds to the unconditional calls. *)
FragmentAdds(network, extra) ==
    {n \in extra \cap DOMAIN Number :
        /\ n \notin ArgFiltered
        /\ n \notin CriticalDenied
        /\ n \in OptIn}

MinimalFilter(network, extra) ==
    LET argRules == ArgRules(network)
        open == BaseAllowed \cup NetworkSyscalls(network)
                    \cup FragmentAdds(network, extra)
    IN  [n \in open \cup DOMAIN argRules |->
            IF n \in DOMAIN argRules THEN argRules[n] ELSE <<>>]

(* A profile that overrides the built-in argument rules. *)
ProfileOverrides(names) ==
    [n \in (names \cap DOMAIN Number) \ {"clone3"} |-> <<>>]

(* A custom profile: every known name it lists but clone3, and for the      *)
(* argument-filtered ones the built-in rules.                              *)
ProfileFilter(names) ==
    LET builtin == MinimalFilter(TRUE, {})
    IN  [n \in (names \cap DOMAIN Number) \ {"clone3"} |->
            IF n \in ArgFiltered THEN builtin[n] ELSE <<>>]

(* The names the generator can give a traced number; the others become     *)
(* "__NR_<n>", which no profile loader knows.                              *)
TableNames == DOMAIN Number \ {"io_uring_setup", "ptrace", "setns"}

GeneratedNames(traced) ==
    (traced \cap TableNames)
        \cup (IF traced \subseteq TableNames THEN {} ELSE {"__NR_"})

FilterRules(p) ==
    CASE p.kind = "builtin" ->
            LET rules == MinimalFilter(p.network, p.names)
            IN  IF p.gpu THEN [rules EXCEPT !["ioctl"] = <<>>] ELSE rules
      [] p.kind = "profile" -> ProfileFilter(p.names)
      [] p.kind = "generated" -> ProfileFilter(GeneratedNames(p.names))

(* What production's validation of the fragment lets through. *)
FragmentOk(p) ==
    /\ p.names \subseteq DOMAIN Number
    /\ p.names \cap CriticalDenied = {}
    /\ p.names \subseteq BaseAllowed \cup NetworkSyscalls(p.network)
                            \cup ArgFiltered \cup OptIn
------------------------------------------------------------------------------
(***************************************************************************)
(* The compiler.  A jump's distance counts from the instruction after it.  *)
(***************************************************************************)
Stmt(op, k) == [op |-> op, k |-> k, jt |-> 0, jf |-> 0]
Jump(k, jt, jf) == [op |-> "jeq", k |-> k, jt |-> jt, jf |-> jf]

ConditionLength(c) == IF c.mask = Whole THEN 2 ELSE 3

(* seccompiler's translation of one rule: two helper jumps, then the        *)
(* conditions, last one first, each leaving for the next rule when false.   *)
RuleProgram(rule) ==
    LET n == Len(rule)
        after[i \in 0..n] ==
            IF i = 0 THEN 1 ELSE after[i - 1] + ConditionLength(rule[i])
        condition(i) ==
            <<Stmt("ld_arg", rule[i].arg)>>
                \o (IF rule[i].mask = Whole THEN <<>> ELSE <<Stmt("and", rule[i].mask)>>)
                \o <<Jump(rule[i].value, 0, after[i - 1])>>
    IN  <<Stmt("ja", 1), Stmt("ja", after[n] + 1)>>
            \o FlattenSeq([i \in 1..n |-> condition(n + 1 - i)])

SyscallChain(nr, chain) ==
    LET bodies == FlattenSeq([i \in 1..Len(chain) |->
                                RuleProgram(chain[i]) \o <<Stmt("ret", "allow")>>])
    IN  <<Jump(nr, 1, 0), Stmt("ja", Len(bodies) + 1)>>
            \o bodies \o <<Stmt("ret", "kill")>>

ArgSection(rules) ==
    LET filtered == {n \in DOMAIN rules : rules[n] # <<>>}
        order == SelectSeq(NameOrder, LAMBDA n : n \in filtered)
    IN  IF filtered = {} THEN <<>>
        ELSE <<Stmt("ld_nr", 0)>>
                \o FlattenSeq([i \in 1..Len(order) |->
                                 SyscallChain(Number[order[i]], rules[order[i]])])

(* The bitmap of the calls allowed whatever their arguments. *)
BitmapWord(rules, w) ==
    LET bits == {Number[n] % 2^WordShift :
                    n \in {m \in DOMAIN rules : /\ rules[m] = <<>>
                                                /\ Number[m] \div 2^WordShift = w}}
    IN  FoldSet(LAMBDA b, sum : sum + 2^b, 0, bits)

(* Dispatch whose jumps to the bitmap test are one instruction too long. *)
DispatchLong(rules) ==
    LET active == SelectSeq([w \in 1..BitmapWords |-> w - 1],
                            LAMBDA w : BitmapWord(rules, w) # 0)
        entry(i) == <<Jump(active[i], 0, 2), Stmt("ld_imm", BitmapWord(rules, active[i])),
                      Stmt("ja", 3 * Len(active) + 1 - 3 * (i - 1) - 2)>>
    IN  FlattenSeq([i \in 1..Len(active) |-> entry(i)]) \o <<Stmt("ja", 5)>>

Dispatch(rules) ==
    LET active == SelectSeq([w \in 1..BitmapWords |-> w - 1],
                            LAMBDA w : BitmapWord(rules, w) # 0)
        entry(i) == <<Jump(active[i], 0, 2), Stmt("ld_imm", BitmapWord(rules, active[i])),
                      Stmt("ja", 3 * Len(active) + 1 - 3 * (i - 1) - 3)>>
    IN  FlattenSeq([i \in 1..Len(active) |-> entry(i)]) \o <<Stmt("ja", 5)>>

CompileFilter(rules) ==
    <<Stmt("ld_arch", 0), Jump("native", 1, 0), Stmt("ret", "kill"),
      Stmt("ld_nr", 0), Jump(Number["clone3"], 0, 1), Stmt("ret", "errno"),
      Stmt("ld_nr", 0), Stmt("and", 2^WordShift - 1), Stmt("st", 0),
      Stmt("ld_nr", 0), Stmt("rsh", WordShift)>>
        \o Dispatch(rules)
        \o <<Stmt("ldx", 0), Stmt("rshx", 0), Stmt("and", 1), Jump(1, 0, 1),
             Stmt("ret", "allow")>>
        \o ArgSection(rules)
        \o <<Stmt("ret", "kill")>>
------------------------------------------------------------------------------
Calls ==
    [arch : {"native"}, name : DOMAIN Number, a0 : ArgValues, a1 : {0, 1}]
        \cup [arch : {"foreign"}, name : {"read"}, a0 : {0}, a1 : {0}]

SeccompTypeOK ==
    /\ policy \in Policies /\ call \in Calls
    /\ insn \in 1..(Len(prog) + 1)
    /\ verdict \in {"none", "refused", "allow", "kill", "errno"}

SeccompBegins ==
    /\ prog = <<>> /\ insn = 1 /\ acc = 0 /\ reg = 0 /\ slot = 0
    /\ verdict = "none"
SeccompInit == policy \in Policies /\ call \in Calls /\ SeccompBegins

(* The filter is compiled and installed; a pinned profile whose digest     *)
(* differs, and a fragment production does not support, refuse the launch. *)
InstallFilter ==
    /\ prog = <<>> /\ verdict = "none"
    /\ IF \/ policy.kind # "builtin" /\ policy.pin = "stale"
          \/ policy.kind = "builtin" /\ policy.production /\ ~FragmentOk(policy)
       THEN verdict' = "refused" /\ UNCHANGED prog
       ELSE prog' = CompileFilter(FilterRules(policy)) /\ UNCHANGED verdict
    /\ UNCHANGED <<policy, call, insn, acc, reg, slot>>

(* The kernel's interpretation of one instruction. *)
Interpret ==
    /\ prog # <<>> /\ verdict = "none" /\ insn <= Len(prog)
    /\ LET i == prog[insn]
       IN  /\ acc' = CASE i.op = "ld_arch" -> call.arch
                       [] i.op = "ld_nr" -> Number[call.name]
                       [] i.op = "ld_arg" -> IF i.k = 0 THEN call.a0 ELSE call.a1
                       [] i.op = "ld_imm" -> i.k
                       [] i.op = "and" -> acc & i.k
                       [] i.op = "rsh" -> shiftR(acc, i.k)
                       [] i.op = "rshx" -> shiftR(acc, reg)
                       [] OTHER -> acc
           /\ reg' = IF i.op = "ldx" THEN slot ELSE reg
           /\ slot' = IF i.op = "st" THEN acc ELSE slot
           /\ verdict' = IF i.op = "ret" THEN i.k ELSE verdict
           /\ insn' = CASE i.op = "ja" -> insn + 1 + i.k
                        [] i.op = "jeq" -> insn + 1 + (IF acc = i.k THEN i.jt ELSE i.jf)
                        [] i.op = "ret" -> insn
                        [] OTHER -> insn + 1
    /\ UNCHANGED <<policy, call, prog>>

SeccompNext == InstallFilter \/ Interpret
------------------------------------------------------------------------------
(* The meaning of a rule set, without the program. *)
Holds(condition) ==
    ((IF condition.arg = 0 THEN call.a0 ELSE call.a1) & condition.mask) = condition.value

Permitted(rules) ==
    /\ call.name \in DOMAIN rules
    /\ \/ rules[call.name] = <<>>
       \/ \E i \in 1..Len(rules[call.name]) :
             \A j \in 1..Len(rules[call.name][i]) : Holds(rules[call.name][i][j])

(***************************************************************************)
(* compile_bitmap_bpf_with_errno_syscalls is a faithful compiler: on every *)
(* call the program returns, in range, what the rule set means: foreign    *)
(* architectures die, clone3 fails with an error, a call the rules permit  *)
(* runs and any other dies.  The jump distances of the dispatch, of the    *)
(* bitmap test and of every argument chain have to be right for this.      *)
(***************************************************************************)
ProgramMeansRules ==
    /\ prog # <<>> => insn <= Len(prog)
    /\ verdict \in {"allow", "kill", "errno"} =>
        verdict = CASE call.arch # "native" -> "kill"
                    [] call.arch = "native" /\ call.name \in ErrnoDenied -> "errno"
                    [] OTHER -> IF Permitted(FilterRules(policy)) THEN "allow" ELSE "kill"

(***************************************************************************)
(* No fragment and no profile loosens what the built-in filter restricts   *)
(* by argument: a call to a name of ARG_FILTERED_SYSCALLS that runs would  *)
(* run under the built-in rules, unless GPU mode opened ioctl; and no      *)
(* fragment lets a security-critical call run.                             *)
(***************************************************************************)
ArgumentRulesStay ==
    verdict = "allow" =>
        /\ call.name \in ArgFiltered =>
              \/ Permitted(MinimalFilter(TRUE, {}))
              \/ policy.gpu /\ call.name = "ioctl"
        /\ policy.kind = "builtin" => call.name \notin CriticalDenied
        /\ policy.kind = "builtin" /\ ~policy.network =>
              ~(call.name = "socket" /\ call.a0 = 2)
==============================================================================
