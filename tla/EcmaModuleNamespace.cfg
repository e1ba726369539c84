SPECIFICATION Spec
CONSTANTS
  Modules = {a, b, c}
  a = a
  b = b
  c = c
  x = "x"
  Default = "default"
  Star = "*"
  Names = {"x", "default"}
  Programs <- MCPrograms
INVARIANT NamespaceKeepsScopes

