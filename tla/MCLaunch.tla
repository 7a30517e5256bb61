------------------------------ MODULE MCLaunch ------------------------------
(* Launch on small hosts: trees of directories with nested projects, links  *)
(* into and out of them and an alias of the home, and two slots for cards.  *)
EXTENDS Launch

MCNames ==
  <<".agents", ".codex", ".git", ".npm", ".npm-global", "bin", "current-system", "d", "dev", "dri", "e",
    "etc", "h", "k", "kfd", "l", "lib", "lib64", "n", "nix", "opt", "p", "q", "r", "r1", "r2", "run", "s",
    "sbin", "store", "sw", "sys", "tmp", "u", "usr", "w", "x", "y">>

Directories ==
  {<<>>, <<"usr">>, <<"usr", "e">>, <<"h">>, <<"h", ".npm">>, <<"h", "p">>, <<"h", "p", ".git">>,
   <<"h", "p", "q">>, <<"h", "p", "q", "w">>, <<"h", "w">>, <<"h", "w", ".git">>, <<"d">>,
   <<"d", "x">>, <<"usr", "e", ".git">>, <<"sys">>, <<"opt">>, <<"opt", "y">>, <<"tmp">>}
Files ==
  {<<"h", "p", "s">>, <<"h", "p", "r">>, <<"h", "p", "q", "s">>, <<"h", "p", "q", ".git">>,
   <<"h", "p", "q", "w", "s">>, <<"h", "p", ".git", "s">>, <<"usr", "e", "s">>}
Links ==
  <<"h", ".npm-global">> :> <<"d", "x">> @@ <<"h", "l">> :> <<"d", "x">> @@ <<"usr", "k">> :> <<"d", "x">>
    @@ <<"h", "p", "n">> :> <<"d">> @@ <<"bin">> :> <<"usr">> @@ <<"u">> :> <<"h">>
    @@ <<"opt", "r">> :> <<"d", "x">> @@ <<"d", "x", "n">> :> <<"opt", "y">>
Host ==
  [kind |-> [p \in Directories |-> "directory"] @@ [p \in Files |-> "file"]
              @@ [p \in DOMAIN Links |-> "link"],
   link |-> Links]

NoGpu == [features |-> {}, devices |-> {"auto"}, readonly_roots |-> {}]
Card(device) == [vendor |-> AMD, device |-> device, driver |-> "amdgpu"]
MCCards == {Card("744c"), Card("73bf")}
\* One card, with one or with two render nodes, or one in each slot.
Hardware ==
  LET on(card, render) ==
        [sys |-> [card |-> card, render |-> render, kfd |-> TRUE],
         dev |-> KFD :> 1 @@ [r \in DOMAIN render |-> IF r = "r1" THEN 2 ELSE 3]]
  IN [one |-> on("p1" :> Card("744c"), "r1" :> "p1"),
      parts |-> on("p1" :> Card("744c"), "r1" :> "p1" @@ "r2" :> "p1"),
      two |-> on("p1" :> Card("744c") @@ "p2" :> Card("744c"), "r1" :> "p1" @@ "r2" :> "p2"),
      mixed |-> on("p1" :> Card("744c") @@ "p2" :> [vendor |-> "0x8086", device |-> "1", driver |-> "i915"],
                   "r1" :> "p2" @@ "r2" :> "p1")]

Scene(workspace, home, trusted, extra, allow, request, cards, n) ==
  [host |-> Host, workspace |-> workspace, home |-> home, home_canonical |-> <<"h">>,
   trusted |-> trusted, extra_read_only |-> extra, allow |-> allow, deny |-> {"s"},
   gpu |-> request, hw |-> Hardware[cards], changes |-> n]

TreeScenes ==
  {Scene(w, home, t, x, a, NoGpu, "one", 0) :
     w \in {<<"h", "w">>, <<"h", "p", "q">>, <<"h", "p", "q", "w">>}, home \in {<<"h">>, <<"u">>},
     t \in SUBSET {<<"h">>, <<"h", "p">>, <<"h", "p", "q">>, <<"usr", "e">>},
     x \in {{}, {<<"h", "l">>}, {<<"d">>}, {<<"d">>, <<"d", "x">>, <<"h", "p", "n">>}},
     a \in {{}, {<<"h", "p", "q">>}, {<<"h", "p", "s">>}, {<<"u", "p">>}}}
Request(features, devices, roots) ==
  [features |-> features, devices |-> devices, readonly_roots |-> roots]
Graphics(devices) == Request({"graphics"}, devices, {})
\* Roots that are nested, covered, linked, in the metadata of a project, and below a
\* link, which is made or not.
Roots ==
  SUBSET {<<"d">>, <<"d", "x">>, <<"h", "l">>, <<"usr", "k">>, <<"opt", "r">>}
    \union SUBSET {<<"usr", "e", ".git">>, <<"d", "x", "n">>, <<"opt", "y">>, <<"d">>}
    \union {{<<"opt", "r", "n">>}, {<<"opt", "r">>, <<"opt", "r", "n">>}}
RootScenes ==
  {Scene(<<"h", "w">>, <<"h">>, t, x, {}, Request({"graphics"}, {"auto"}, r), "one", 0) :
     t \in {{}, {<<"usr", "e">>}}, x \in {{}, {<<"h", "l">>}, {<<"d">>}, {<<"d", "x">>}, {<<"opt", "r">>}},
     r \in Roots}
CardScenes ==
  {Scene(<<"h", "w">>, <<"h">>, {}, {}, {}, Request({"graphics", "compute"}, {"auto"}, {}), "mixed", 2),
   Scene(<<"h", "w">>, <<"h">>, {}, {}, {}, Graphics({"p1"}), "one", 4),
   Scene(<<"h", "w">>, <<"h">>, {}, {}, {}, Graphics({"auto"}), "parts", 2),
   Scene(<<"h", "w">>, <<"h">>, {}, {}, {}, Graphics({"all"}), "two", 2)}
MCScenes == TreeScenes \union RootScenes \union CardScenes
=============================================================================
