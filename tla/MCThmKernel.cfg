SPECIFICATION CoreSpec
CONSTANTS
  Term <- MCTerm
  Prop <- MCProp
  PremList <- MCPremList
  FreeName <- MCFreeName
  Oracle = {"admitted"}
  Admissible <- MCAdmissible
  Sort = {"finite"}
  Env <- MCEnv
  MaxLive = 2
  MaxHyps = 1
  Implies <- mk_implies
  IsImplies <- is_implies
  Antecedent <- antecedent
  Consequent <- consequent
  Equals <- mk_equals
  IsEquals <- is_equals
  Lhs <- lhs
  Rhs <- rhs
  ForAll <- MCForAll
  IsForAll <- is_all
  BodyOf <- all_body
  Prems <- prems
  Concl <- concl
  Chain <- MCChain
  SubstBound <- MCSubstBound
  Lam <- Abs
  Apply <- App
  AlphaEq <- alpha_eq
  LikelyUnifiable <- likely_unifiable
  FreeIn <- free_in
  MaxIdx <- compute_maxidx
  Norm <- norm_term
  EnvMaxIdx <- MCEnvMaxIdx
  EmptyEnv <- empty_env
  Unifiers <- MCUnifiers
  Matchers <- MCMatchers
  SearchBound = 600
  Val <- MCVal
  Den <- MCDen
  Variants <- MCVariants
INVARIANTS
  FootprintExact
  Sound
  MaxidxCovers
CHECK_DEADLOCK FALSE
