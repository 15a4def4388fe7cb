\* One page after the other in a window, or two at once; names of files that
\* are directories of others; an advertisement.
SPECIFICATION AssetsSpec
CONSTANTS
  Nothing = Nothing
  home = home
  docs = docs
  docsIndex = docsIndex
  css = css
  ad = ad
  Pages = {1, 2}
  Fragile = {docs}
  Urls = {home, docs, docsIndex, css, ad}
  Paths = {home, docs, docsIndex, css, ad}
  Own = {home, docs, docsIndex, css}
  Ads = {ad}
  Settings <- HowStarted
  Home <- PageHome
  Redirect <- RedirectOf
  Links <- LinksOf
  TypeOf <- TypeOfUrl
  PathOf <- PathOfUrl
  DirOf <- DirOfPath
INVARIANTS
  
  BytesBelong
  
CHECK_DEADLOCK FALSE
