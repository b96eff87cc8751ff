CONSTANTS
  lint = lint
  unit = unit
  web = web
  env = env
  db = db
  api = api
  page = page
  stray = stray
  Step = {lint, unit, web}
  Steps <- MCSteps
  Component = {"backend", "frontend", "unknown"}
  ComponentOf <- MCComponentOf
  Profile = {"fast", "full", "none"}
  ProfilesOf <- MCProfilesOf
  Needs <- MCNeeds
  Service = {env, db}
  Docker = {db}
  Path = {api, page, stray}
  Match <- MCMatch
  Url <- MCUrl
  Production <- MCProduction
  Invocations <- MCInvocations
  Repositories <- MCRepositories
  Environments <- MCEnvironments
  None = None
SPECIFICATION Spec
INVARIANTS PassIsEarned NothingLeftBehind
PROPERTY RunEnds
